---------------------------- MODULE Spec2Model ----------------------------
(***************************************************************************)
(* Model of the ingredient matching and ranking engine of                  *)
(* python-backend/app.py: the text normalizer (clean_ing), the             *)
(* substitution table (SUBS, get_sub), the corpus built at startup         *)
(* (build_embeddings), the recommendation request (recommend), the         *)
(* handlers that serve it, and the recipe search that asks Gemini and      *)
(* Google Custom Search (generate_recipes_with_gemini,                     *)
(* search_google_recipes_api).                                             *)
(*                                                                         *)
(* A Python str is modelled as a sequence of one-character strings, so     *)
(* that the regular-expression passes of clean_ing and the substring       *)
(* tests of recommend are computed character by character.                 *)
(***************************************************************************)
EXTENDS Integers, Sequences, FiniteSets, TLC

(***************************************************************************)
(* Bounds of the model.                                                    *)
(***************************************************************************)
\* longest raw phrase handed to the normalizer on its own
MaxPhraseLen == 4
\* most recipes in a corpus
MaxRecipes == 2
\* most ingredients in one request
MaxUser == 2
\* most phrases in one list handed to nutrition
MaxBasket == 2

(***************************************************************************)
(* Characters.  Python's re module on str: \d is a digit, \w a letter, a   *)
(* digit or the underscore, \s white space.                                *)
(***************************************************************************)
UpperLetters ==
    <<"A","B","C","D","E","F","G","H","I","J","K","L","M",
      "N","O","P","Q","R","S","T","U","V","W","X","Y","Z">>

LowerLetters ==
    <<"a","b","c","d","e","f","g","h","i","j","k","l","m",
      "n","o","p","q","r","s","t","u","v","w","x","y","z">>

Range(f) == {f[i] : i \in DOMAIN f}

Digits == {"0","1","2","3","4","5","6","7","8","9"}

UpperSet == Range(UpperLetters)

WordChars == UpperSet \cup Range(LowerLetters) \cup Digits \cup {"_"}

SpaceChars == {" "}

Drop(s, n) == SubSeq(s, n + 1, Len(s))

Take(s, n) == SubSeq(s, 1, n)

\* length of the longest prefix of s made of characters of the set S
RECURSIVE RunLen(_, _)
RunLen(s, S) ==
    IF s = << >> \/ Head(s) \notin S THEN 0 ELSE 1 + RunLen(Tail(s), S)

(***************************************************************************)
(* clean_ing, pass by pass.  re.sub replaces the leftmost non-overlapping  *)
(* matches, scanning left to right.                                        *)
(***************************************************************************)
\* s = str(s).lower()
LowerChar(c) ==
    IF c \in UpperSet
    THEN LowerLetters[CHOOSE i \in DOMAIN UpperLetters : UpperLetters[i] = c]
    ELSE c

Lower(s) == [i \in 1..Len(s) |-> LowerChar(s[i])]

\* s = re.sub(r'\([^)]*\)', ' ', s): an opening parenthesis up to the first
\* closing one after it; an opening parenthesis that is never closed stays
RECURSIVE SubParens(_)
SubParens(s) ==
    IF s = << >> THEN << >>
    ELSE IF Head(s) = "(" /\ \E j \in 2..Len(s) : s[j] = ")"
    THEN LET j == CHOOSE k \in 2..Len(s) :
                     /\ s[k] = ")"
                     /\ \A m \in 2..(k - 1) : s[m] # ")"
         IN  <<" ">> \o SubParens(Drop(s, j))
    ELSE <<Head(s)>> \o SubParens(Tail(s))

\* UNIT_PAT = r'\b(g|kg|gram|grams|ml|l|cup|cups|tbsp|tsp|ounce|oz|clove|slice)\b'
UNITS ==
    { <<"g">>, <<"k","g">>, <<"g","r","a","m">>, <<"g","r","a","m","s">>,
      <<"m","l">>, <<"l">>, <<"c","u","p">>, <<"c","u","p","s">>,
      <<"t","b","s","p">>, <<"t","s","p">>, <<"o","u","n","c","e">>,
      <<"o","z">>, <<"c","l","o","v","e">>, <<"s","l","i","c","e">> }

\* s = re.sub(UNIT_PAT, ' ', s): every alternative is made of word characters
\* and stands between two \b, so a match is a maximal run of word characters
\* that spells a unit; the run "500g" is one word and is no match
RECURSIVE SubUnits(_)
SubUnits(s) ==
    IF s = << >> THEN << >>
    ELSE LET n == RunLen(s, WordChars)
         IN  IF n = 0 THEN <<Head(s)>> \o SubUnits(Tail(s))
             ELSE IF Take(s, n) \in UNITS THEN <<" ">> \o SubUnits(Drop(s, n))
             ELSE Take(s, n) \o SubUnits(Drop(s, n))

\* QUANTITY = r'\d+(/\d+)?' ; s = re.sub(QUANTITY, ' ', s)
RECURSIVE SubQuantity(_)
SubQuantity(s) ==
    IF s = << >> THEN << >>
    ELSE LET n == RunLen(s, Digits)
             rest == Drop(s, n)
             m == IF rest # << >> /\ Head(rest) = "/"
                  THEN RunLen(Tail(rest), Digits) ELSE 0
         IN  IF n = 0 THEN <<Head(s)>> \o SubQuantity(Tail(s))
             ELSE IF m > 0 THEN <<" ">> \o SubQuantity(Drop(s, n + 1 + m))
             ELSE <<" ">> \o SubQuantity(rest)

\* s = re.sub(r'[^\w\s]', ' ', s)
SubPunct(s) ==
    [i \in 1..Len(s) |->
        IF s[i] \in WordChars \/ s[i] \in SpaceChars THEN s[i] ELSE " "]

\* re.sub(r'\s+', ' ', s).strip()
RECURSIVE Collapse(_)
Collapse(s) ==
    IF s = << >> THEN << >>
    ELSE LET n == RunLen(s, SpaceChars)
         IN  IF n = 0 THEN <<Head(s)>> \o Collapse(Tail(s))
             ELSE <<" ">> \o Collapse(Drop(s, n))

Strip(s) ==
    LET a == RunLen(s, SpaceChars)
        t == Drop(s, a)
        e == IF t # << >> /\ t[Len(t)] \in SpaceChars THEN Len(t) - 1 ELSE Len(t)
    IN  Take(t, e)

\* def clean_ing(s)
clean_ing(s) ==
    Strip(Collapse(SubPunct(SubQuantity(SubUnits(SubParens(Lower(s)))))))

(***************************************************************************)
(* The words of the substitution table, spelled out.                       *)
(***************************************************************************)
w_curd == <<"c","u","r","d">>
w_yogurt == <<"y","o","g","u","r","t">>
w_dahi == <<"d","a","h","i">>
w_capsicum == <<"c","a","p","s","i","c","u","m">>
w_bell_pepper == <<"b","e","l","l"," ","p","e","p","p","e","r">>
w_maida == <<"m","a","i","d","a">>
w_all_purpose_flour == <<"a","l","l"," ","p","u","r","p","o","s","e"," ","f","l","o","u","r">>
w_flour == <<"f","l","o","u","r">>
w_paneer == <<"p","a","n","e","e","r">>
w_cottage_cheese == <<"c","o","t","t","a","g","e"," ","c","h","e","e","s","e">>
w_cheese == <<"c","h","e","e","s","e">>
w_coriander == <<"c","o","r","i","a","n","d","e","r">>
w_cilantro == <<"c","i","l","a","n","t","r","o">>
w_cream == <<"c","r","e","a","m">>
w_milk == <<"m","i","l","k">>
w_malai == <<"m","a","l","a","i">>
w_sugar == <<"s","u","g","a","r">>
w_jaggery == <<"j","a","g","g","e","r","y">>
w_gur == <<"g","u","r">>
w_ghee == <<"g","h","e","e">>
w_clarified_butter == <<"c","l","a","r","i","f","i","e","d"," ","b","u","t","t","e","r">>
w_butter == <<"b","u","t","t","e","r">>
w_atta == <<"a","t","t","a">>
w_whole_wheat_flour == <<"w","h","o","l","e"," ","w","h","e","a","t"," ","f","l","o","u","r">>
w_wheat_flour == <<"w","h","e","a","t"," ","f","l","o","u","r">>
w_besan == <<"b","e","s","a","n">>
w_gram_flour == <<"g","r","a","m"," ","f","l","o","u","r">>
w_chickpea_flour == <<"c","h","i","c","k","p","e","a"," ","f","l","o","u","r">>
w_jeera == <<"j","e","e","r","a">>
w_cumin == <<"c","u","m","i","n">>
w_cumin_seeds == <<"c","u","m","i","n"," ","s","e","e","d","s">>
w_haldi == <<"h","a","l","d","i">>
w_turmeric == <<"t","u","r","m","e","r","i","c">>
w_turmeric_powder == <<"t","u","r","m","e","r","i","c"," ","p","o","w","d","e","r">>
w_dhaniya == <<"d","h","a","n","i","y","a">>
w_methi == <<"m","e","t","h","i">>
w_fenugreek == <<"f","e","n","u","g","r","e","e","k">>
w_hing == <<"h","i","n","g">>
w_asafoetida == <<"a","s","a","f","o","e","t","i","d","a">>
w_ajwain == <<"a","j","w","a","i","n">>
w_carom_seeds == <<"c","a","r","o","m"," ","s","e","e","d","s">>

\* SUBS, in the order the dictionary literal declares its keys; each entry
\* is <<key, list of substitutes>>
SUBS ==
    << <<w_curd, <<w_yogurt, w_dahi>> >>,
       <<w_capsicum, <<w_bell_pepper>> >>,
       <<w_maida, <<w_all_purpose_flour, w_flour>> >>,
       <<w_paneer, <<w_cottage_cheese, w_cheese>> >>,
       <<w_cottage_cheese, <<w_paneer>> >>,
       <<w_coriander, <<w_cilantro>> >>,
       <<w_cream, <<w_milk, w_malai>> >>,
       <<w_sugar, <<w_jaggery, w_gur>> >>,
       <<w_yogurt, <<w_curd, w_dahi>> >>,
       <<w_dahi, <<w_yogurt, w_curd>> >>,
       <<w_ghee, <<w_clarified_butter, w_butter>> >>,
       <<w_clarified_butter, <<w_ghee>> >>,
       <<w_atta, <<w_whole_wheat_flour, w_wheat_flour>> >>,
       <<w_besan, <<w_gram_flour, w_chickpea_flour>> >>,
       <<w_gram_flour, <<w_besan, w_chickpea_flour>> >>,
       <<w_jeera, <<w_cumin, w_cumin_seeds>> >>,
       <<w_cumin, <<w_jeera, w_cumin_seeds>> >>,
       <<w_haldi, <<w_turmeric, w_turmeric_powder>> >>,
       <<w_turmeric, <<w_haldi, w_turmeric_powder>> >>,
       <<w_dhaniya, <<w_coriander, w_cilantro>> >>,
       <<w_methi, <<w_fenugreek>> >>,
       <<w_hing, <<w_asafoetida>> >>,
       <<w_ajwain, <<w_carom_seeds>> >> >>

\* SUBS.get(k, [])
SubsGet(k) ==
    IF \E n \in DOMAIN SUBS : SUBS[n][1] = k
    THEN SUBS[CHOOSE n \in DOMAIN SUBS : SUBS[n][1] = k][2]
    ELSE << >>

\* Python's  x in lst  for a list of strings
InList(x, lst) == \E n \in DOMAIN lst : lst[n] = x

\* Python's  a in b  for two strings: a occurs in b as a substring (the empty
\* string occurs in every string)
InStr(a, b) ==
    \E i \in 0..(Len(b) - Len(a)) : SubSeq(b, i + 1, i + Len(a)) = a

(***************************************************************************)
(* Inputs: the raw phrases recipes and requests are made of.               *)
(***************************************************************************)
w_rice == <<"r","i","c","e">>
w_onion == <<"o","n","i","o","n">>
w_tomato == <<"t","o","m","a","t","o">>
w_2_cups_rice == <<"2"," ","c","u","p","s"," ","r","i","c","e">>
w_2_cups == <<"2"," ","c","u","p","s">>

\* the value None, where a string is expected
None == <<"None">>

w_Indian == <<"I","n","d","i","a","n">>
w_Italian == <<"I","t","a","l","i","a","n">>

\* the rows of the dataset a corpus is drawn from: name, raw ingredients and
\* the cuisine load_recipes gave the row (None when the tags name none)
RecipeBook ==
    { [name |-> "pulao",   ingredients |-> <<w_rice, w_onion, w_tomato>>,
       cuisine |-> w_Indian],
      [name |-> "kheer",   ingredients |-> <<w_2_cups_rice, w_rice>>,
       cuisine |-> w_Indian],
      [name |-> "chutney", ingredients |-> <<w_coriander>>,
       cuisine |-> None],
      [name |-> "plain",   ingredients |-> << >>,
       cuisine |-> w_Italian] }

\* the raw phrases a client sends
UserVocab == {w_rice, w_onion, w_dhaniya, w_cilantro, w_2_cups}

(***************************************************************************)
(* clean_ing is pure and is called again and again on the same few         *)
(* strings: its values on the strings of the model are computed once.      *)
(***************************************************************************)
\* the words of the substitution table, keys and substitutes
SubsWords ==
    {SUBS[n][1] : n \in DOMAIN SUBS} \cup UNION {Range(SUBS[n][2]) : n \in DOMAIN SUBS}

KnownPhrases ==
    LET raw == UNION {Range(b.ingredients) : b \in RecipeBook} \cup UserVocab
               \cup SubsWords
    IN  raw \cup {clean_ing(s) : s \in raw}

\* f @@ << >> is f, held as a table
CleanOf == [s \in KnownPhrases |-> clean_ing(s)] @@ << >>

\* a call clean_ing(s)
Clean(s) == IF s \in KnownPhrases THEN CleanOf[s] ELSE clean_ing(s)

\* def clean_list(lst)
clean_list(lst) == [i \in 1..Len(lst) |-> Clean(lst[i])]

\* def get_sub(i)
get_sub(i) == SubsGet(Clean(i))

\* the sequences of lo..hi distinct elements of S
SeqsBetween(S, lo, hi) ==
    UNION { {q \in [1..n -> S] : \A i, j \in 1..n : q[i] = q[j] => i = j} :
            n \in lo..hi }

\* cosine similarities, in tenths: -0.2, 0.5 and 0.6
Scores == {-2, 5, 6}

\* the threshold taken as score >= 0.5
AboveHalf_Inclusive(score) == 2 * score >= 10

\* score > 0.5, for a score in tenths
AboveHalf(score) == 2 * score > 10

TopNs == {-1, 0, 1, 8}

MaxMissings == {-1, 0, 2}

(***************************************************************************)
(* State.                                                                  *)
(***************************************************************************)
VARIABLES
    df,     \* the corpus: a sequence of rows [name, ingredients, cuisine, clean]
    pc,     \* "idle", "done" (recommend has returned), or a stage of a
            \* function run on its own
    req,    \* the arguments of the call of recommend being served
    sims,   \* the similarity of the request to each row, from the provider
    out,    \* the records recommend kept, before sorting and truncation
    res,    \* the list recommend returned
    norm,   \* the successive results of clean_ing on one phrase
    recipe_emb, \* the embedding matrix: one vector per row of df
    dataset,    \* the file read at startup and N_LIMIT: [rows, n_limit]
    calls,      \* the requests in flight, one handler run per client
    nut,        \* a call of nutrition: its argument and its result
    trial,      \* the matching loop of recommend run on one recipe for two
                \* user lists: [clean, ings, more, first, second]
    search      \* one run of the /api/search handler: the configured keys,
                \* the requests sent to the providers and the response

vars == <<df, pc, req, sims, out, res, norm, recipe_emb, dataset, calls, nut,
          trial, search>>

\* what the requests of the server leave alone outside their own call
serving == <<dataset, calls, nut, trial, search>>

NoReq == [ingredients |-> << >>, top_n |-> 0, max_missing |-> 0]

(***************************************************************************)
(* build_embeddings: the cleaned ingredients of each row.                  *)
(***************************************************************************)
build_row(row) ==
    [name |-> row.name, ingredients |-> row.ingredients, cuisine |-> row.cuisine,
     clean |-> clean_list(row.ingredients)]

build_embeddings(rows) == [i \in 1..Len(rows) |-> build_row(rows[i])]

\* ", ".join(L)
RECURSIVE JoinComma(_)
JoinComma(L) ==
    IF L = << >> THEN << >>
    ELSE IF Len(L) = 1 THEN L[1]
    ELSE L[1] \o <<",", " ">> \o JoinComma(Tail(L))

\* model.encode(text): the provider is a fixed model, its vector is known by
\* the text it was computed from
Encode(text) == [of |-> text]

\* emb = model.encode(df["ing_text"].tolist()): one vector per row, in order
Embeddings(d) == [i \in 1..Len(d) |-> Encode(JoinComma(d[i].clean))]

(***************************************************************************)
(* recommend: the matcher.                                                 *)
(***************************************************************************)
\* the direct test made in one direction only: r in u
DirectMatch_OneWay(r, user_clean) ==
    \E n \in DOMAIN user_clean : InStr(r, user_clean[n])

\* for u in user_clean: if r in u or u in r or r == u
DirectMatch(r, user_clean) ==
    \E n \in DOMAIN user_clean :
        LET u == user_clean[n]
        IN  InStr(r, u) \/ InStr(u, r) \/ r = u

\* the second loop testing the last user term alone
SubsLoop_LastOnly(r, us) ==
    IF us = << >> THEN [kind |-> "none", u |-> << >>]
    ELSE LET u == us[Len(us)]
         IN  IF InList(u, get_sub(r)) THEN [kind |-> "forward", u |-> u]
             ELSE IF InList(r, get_sub(u)) THEN [kind |-> "reverse", u |-> u]
             ELSE [kind |-> "none", u |-> << >>]

\* the second loop over user_clean: the first user term that is a declared
\* substitute of r ("forward") or that declares r as its substitute
\* ("reverse"); both tests are made on one user term before the next
RECURSIVE SubsLoop(_, _)
SubsLoop(r, us) ==
    IF us = << >> THEN [kind |-> "none", u |-> << >>]
    ELSE LET u == Head(us)
         IN  IF InList(u, get_sub(r)) THEN [kind |-> "forward", u |-> u]
             ELSE IF InList(r, get_sub(u)) THEN [kind |-> "reverse", u |-> u]
             ELSE SubsLoop(r, Tail(us))

\* r + f"(sub->{u})"
Annotate(r, u) == r \o <<"(","s","u","b","-",">">> \o u \o <<")">>

\* the dict left as it is
DictSet_Nothing(d, k, v) == d

\* subs_used[r] = u on a dict kept as its list of <<key, value>> items
DictSet(d, k, v) ==
    IF \E n \in DOMAIN d : d[n][1] = k
    THEN [n \in DOMAIN d |-> IF d[n][1] = k THEN <<k, v>> ELSE d[n]]
    ELSE Append(d, <<k, v>>)

\* the loop body with the substitution loop run before the direct one
MatchStep_SubsFirst(r, user_clean, acc) ==
    LET s == SubsLoop(r, user_clean)
    IN  CASE s.kind = "forward" ->
               [acc EXCEPT !.present = Append(@, Annotate(r, s.u)),
                           !.subs_used = DictSet(@, r, s.u)]
          [] s.kind = "reverse" ->
               [acc EXCEPT !.present = Append(@, r)]
          [] DirectMatch(r, user_clean) ->
               [acc EXCEPT !.present = Append(@, r)]
          [] OTHER ->
               [acc EXCEPT !.missing = Append(@, r)]

\* the loop body with found left unset after a direct match: the term goes
\* on to the substitution loop and to missing
MatchStep_FoundNotSet(r, user_clean, acc) ==
    LET a == IF DirectMatch(r, user_clean)
             THEN [acc EXCEPT !.present = Append(@, r)] ELSE acc
        s == SubsLoop(r, user_clean)
    IN  CASE s.kind = "forward" ->
               [a EXCEPT !.present = Append(@, Annotate(r, s.u)),
                         !.subs_used = DictSet(@, r, s.u)]
          [] s.kind = "reverse" ->
               [a EXCEPT !.present = Append(@, r)]
          [] OTHER ->
               [a EXCEPT !.missing = Append(@, r)]

\* the body of  for i_r, r in enumerate(row["clean"])
MatchStep(r, user_clean, acc) ==
    IF DirectMatch(r, user_clean)
    THEN [acc EXCEPT !.present = Append(@, r)]
    ELSE LET s == SubsLoop(r, user_clean)
         IN  CASE s.kind = "forward" ->
                    [acc EXCEPT !.present = Append(@, Annotate(r, s.u)),
                                !.subs_used = DictSet(@, r, s.u)]
               [] s.kind = "reverse" ->
                    [acc EXCEPT !.present = Append(@, r)]
               [] OTHER ->
                    [acc EXCEPT !.missing = Append(@, r)]

RECURSIVE MatchLoop(_, _, _)
MatchLoop(rs, user_clean, acc) ==
    IF rs = << >> THEN acc
    ELSE MatchLoop(Tail(rs), user_clean, MatchStep(Head(rs), user_clean, acc))

\* the loops run against the first user term alone
Match_HeadOnly(clean, user_clean) ==
    MatchLoop(clean, IF user_clean = << >> THEN << >> ELSE <<Head(user_clean)>>,
              [present |-> << >>, missing |-> << >>, subs_used |-> << >>])

\* present, missing, subs_used = [], [], {} and the loop over row["clean"]
Match(clean, user_clean) ==
    MatchLoop(clean, user_clean,
              [present |-> << >>, missing |-> << >>, subs_used |-> << >>])

(***************************************************************************)
(* The matcher is pure as well: its results on the recipes and requests of *)
(* the model are computed once (f @@ << >> is f, held as a table).         *)
(***************************************************************************)
KnownCleanLists ==
    {clean_list(b.ingredients) : b \in RecipeBook}
        \cup {clean_list(<<w>>) : w \in SubsWords}

KnownUserLists ==
    {clean_list(q) : q \in SeqsBetween(UserVocab, 0, MaxUser)}
        \cup {clean_list(<<w>>) : w \in SubsWords}

MatchOf ==
    [clean \in KnownCleanLists |->
        [user_clean \in KnownUserLists |-> Match(clean, user_clean)] @@ << >>]
    @@ << >>

\* the matcher run on one row
Matched(clean, user_clean) ==
    IF clean \in KnownCleanLists /\ user_clean \in KnownUserLists
    THEN MatchOf[clean][user_clean]
    ELSE Match(clean, user_clean)

(***************************************************************************)
(* recommend: the ranker.  A boosted score score * (1 + present/total) is  *)
(* kept as the exact fraction num/den of tenths (den > 0).                 *)
(***************************************************************************)
\* the score left as the provider gave it
Boost_Unboosted(score, present_count, total_count) ==
    [num |-> score, den |-> 1]

Boost(score, present_count, total_count) ==
    IF total_count > 0
    THEN [num |-> score * (total_count + present_count), den |-> total_count]
    ELSE [num |-> score, den |-> 1]

\* the filter without its cut on the missing ingredients
Keep_NoMissingCut(present_count, score, missing, max_missing) ==
    present_count > 0 \/ AboveHalf(score)

\* the condition under which a row is appended to out
Keep(present_count, score, missing, max_missing) ==
    (present_count > 0 \/ AboveHalf(score)) /\ Len(missing) <= max_missing

\* the dict with the raw ingredients listed as missing when nothing is present
Record_MissingRaw(idx, row, m, score) ==
    [idx |-> idx,
     name |-> row.name,
     ingredients |-> row.ingredients,
     present |-> m.present,
     missing |-> IF m.present = << >> THEN row.ingredients ELSE m.missing,
     score |-> Boost(score, Len(m.present), Len(row.clean)),
     original_score |-> score,
     match_count |-> Len(m.present),
     cuisine |-> row.cuisine,
     substitutions |-> m.subs_used]

\* the dict appended to out for row idx
Record(idx, row, m, score) ==
    [idx |-> idx,
     name |-> row.name,
     ingredients |-> row.ingredients,
     present |-> m.present,
     missing |-> m.missing,
     score |-> Boost(score, Len(m.present), Len(row.clean)),
     original_score |-> score,
     match_count |-> Len(m.present),
     cuisine |-> row.cuisine,
     substitutions |-> m.subs_used]

\* for idx, score in enumerate(sims): ... out.append(...)
RECURSIVE ScanRows(_, _, _, _, _)
ScanRows(idx, rows, user_clean, scores, max_missing) ==
    IF idx > Len(rows) THEN << >>
    ELSE LET row == rows[idx]
             m == Matched(row.clean, user_clean)
             rest == ScanRows(idx + 1, rows, user_clean, scores, max_missing)
         IN  IF Keep(Len(m.present), scores[idx], m.missing, max_missing)
             THEN <<Record(idx, row, m, scores[idx])>> \o rest
             ELSE rest

\* a.score < b.score on the fractions
FracLess(a, b) == a.num * b.den < b.num * a.den

\* the sort key taken as the boosted score alone
KeyLess_ScoreOnly(a, b) == FracLess(a.score, b.score)

\* key(a) < key(b) for key = lambda x: (x["match_count"], x["score"])
KeyLess(a, b) ==
    \/ a.match_count < b.match_count
    \/ a.match_count = b.match_count /\ FracLess(a.score, b.score)

\* the insertion that puts x before the records of equal key
RECURSIVE InsertDesc_BeforeEqual(_, _)
InsertDesc_BeforeEqual(sorted, x) ==
    IF sorted = << >> THEN <<x>>
    ELSE IF ~KeyLess(x, Head(sorted)) THEN <<x>> \o sorted
    ELSE <<Head(sorted)>> \o InsertDesc_BeforeEqual(Tail(sorted), x)

\* sorted(..., reverse=True) is stable: x goes after every record whose key
\* is not less than its own
RECURSIVE InsertDesc(_, _)
InsertDesc(sorted, x) ==
    IF sorted = << >> THEN <<x>>
    ELSE IF KeyLess(Head(sorted), x) THEN <<x>> \o sorted
    ELSE <<Head(sorted)>> \o InsertDesc(Tail(sorted), x)

RECURSIVE SortDesc(_, _)
SortDesc(todo, sorted) ==
    IF todo = << >> THEN sorted
    ELSE SortDesc(Tail(todo), InsertDesc(sorted, Head(todo)))

\* the slice taken from the end of the list: lst[len(lst) - n:]
SliceTo_FromEnd(lst, n) ==
    IF n >= 0
    THEN IF n < Len(lst) THEN SubSeq(lst, Len(lst) - n + 1, Len(lst)) ELSE lst
    ELSE Take(lst, IF Len(lst) + n > 0 THEN Len(lst) + n ELSE 0)

\* lst[:n]
SliceTo(lst, n) ==
    IF n >= 0 THEN Take(lst, IF n < Len(lst) THEN n ELSE Len(lst))
    ELSE Take(lst, IF Len(lst) + n > 0 THEN Len(lst) + n ELSE 0)

(***************************************************************************)
(* The state machine.                                                      *)
(***************************************************************************)
Corpora == {build_embeddings(rows) : rows \in SeqsBetween(RecipeBook, 1, MaxRecipes)}

Init ==
    /\ df \in Corpora
    /\ pc = "idle"
    /\ req = NoReq
    /\ sims = << >>
    /\ out = << >>
    /\ res = << >>
    /\ norm = << >>
    /\ recipe_emb = Embeddings(df)
    /\ dataset = << >>
    /\ calls = << >>
    /\ nut = << >>
    /\ trial = << >>
    /\ search = << >>

\* one call recommend(ings, df, recipe_emb, top_n, max_missing); scores is
\* util.cos_sim(user_vec, emb)[0]
Recommend(ings, top_n, max_missing, scores) ==
    /\ pc = "idle"
    /\ LET user_clean == clean_list(ings)
           kept == ScanRows(1, df, user_clean, scores, max_missing)
       IN  /\ out' = kept
           /\ res' = SliceTo(SortDesc(kept, << >>), top_n)
    /\ req' = [ingredients |-> ings, top_n |-> top_n, max_missing |-> max_missing]
    /\ sims' = scores
    /\ pc' = "done"
    /\ UNCHANGED <<df, norm, recipe_emb, serving>>

\* the caller has the result; the next request starts afresh
Return ==
    /\ pc = "done"
    /\ pc' = "idle"
    /\ req' = NoReq
    /\ sims' = << >>
    /\ out' = << >>
    /\ res' = << >>
    /\ UNCHANGED <<df, norm, recipe_emb, serving>>

Request ==
    /\ pc = "idle"
    /\ \E ings \in SeqsBetween(UserVocab, 0, MaxUser), top_n \in TopNs,
          max_missing \in MaxMissings, scores \in [1..Len(df) -> Scores] :
           Recommend(ings, top_n, max_missing, scores)

Next == Request \/ Return

Spec == Init /\ [][Next]_vars

(***************************************************************************)
(* The normalizer on its own: clean_ing applied to a phrase, and again to  *)
(* its own result.                                                         *)
(***************************************************************************)
PhraseChars == {"g", "k", "r", "5", "/", " ", "(", ")"}

Phrases == UNION {[1..n -> PhraseChars] : n \in 0..MaxPhraseLen}

InitClean ==
    /\ df = << >>
    /\ pc = "raw"
    /\ req = NoReq
    /\ sims = << >>
    /\ out = << >>
    /\ res = << >>
    /\ norm \in {<<s>> : s \in Phrases}
    /\ recipe_emb = << >>
    /\ dataset = << >>
    /\ calls = << >>
    /\ nut = << >>
    /\ trial = << >>
    /\ search = << >>

Normalize ==
    /\ pc \in {"raw", "once"}
    /\ norm' = Append(norm, Clean(norm[Len(norm)]))
    /\ pc' = IF pc = "raw" THEN "once" ELSE "twice"
    /\ UNCHANGED <<df, req, sims, out, res, recipe_emb, serving>>

NextClean == Normalize

SpecClean == InitClean /\ [][NextClean]_vars

(***************************************************************************)
(* The substitution table end to end: a corpus of one recipe with one      *)
(* ingredient, and requests of one ingredient, both words of the table.    *)
(***************************************************************************)
InitSubs ==
    /\ df \in {build_embeddings(<<[name |-> "dish", ingredients |-> <<w>>,
                                    cuisine |-> w_Indian]>>) :
                w \in SubsWords}
    /\ pc = "idle"
    /\ req = NoReq
    /\ sims = << >>
    /\ out = << >>
    /\ res = << >>
    /\ norm = << >>
    /\ recipe_emb = Embeddings(df)
    /\ dataset = << >>
    /\ calls = << >>
    /\ nut = << >>
    /\ trial = << >>
    /\ search = << >>

RequestSubs ==
    /\ pc = "idle"
    /\ \E w \in SubsWords, top_n \in TopNs, max_missing \in MaxMissings,
          scores \in [1..Len(df) -> Scores] :
           Recommend(<<w>>, top_n, max_missing, scores)

NextSubs == RequestSubs \/ Return

SpecSubs == InitSubs /\ [][NextSubs]_vars

(***************************************************************************)
(* nutrition: the calorie estimate of a list of ingredients.               *)
(***************************************************************************)
\* the dict NUT, in the order of its items()
NUT ==
    << <<<<"r","i","c","e">>, 130>>,
       <<<<"o","n","i","o","n">>, 40>>,
       <<<<"t","o","m","a","t","o">>, 18>>,
       <<<<"p","a","n","e","e","r">>, 265>>,
       <<<<"g","h","e","e">>, 112>>,
       <<<<"m","i","l","k">>, 42>>,
       <<<<"y","o","g","u","r","t">>, 59>>,
       <<<<"c","u","r","d">>, 59>>,
       <<<<"f","l","o","u","r">>, 364>>,
       <<<<"w","h","e","a","t">>, 340>>,
       <<<<"p","o","t","a","t","o">>, 77>>,
       <<<<"c","a","r","r","o","t">>, 41>>,
       <<<<"c","h","i","c","k","e","n">>, 165>>,
       <<<<"m","u","t","t","o","n">>, 294>>,
       <<<<"f","i","s","h">>, 206>>,
       <<<<"e","g","g">>, 155>>,
       <<<<"l","e","n","t","i","l">>, 116>>,
       <<<<"d","a","l">>, 116>>,
       <<<<"c","h","i","c","k","p","e","a">>, 164>>,
       <<<<"g","r","a","m">>, 164>> >>

\* for k, v in NUT.items(): if k in ii: cals += v
RECURSIVE NutKeys(_, _, _)
NutKeys(ii, k, cals) ==
    IF k > Len(NUT) THEN cals
    ELSE NutKeys(ii, k + 1, IF InStr(NUT[k][1], ii) THEN cals + NUT[k][2] ELSE cals)

\* what the inner loop adds for each phrase of the model, held as a table
CaloriesOf == [s \in KnownPhrases |-> NutKeys(Clean(s), 1, 0)] @@ << >>

\* for i in lst: ii = clean_ing(i); ...
RECURSIVE NutLoop(_, _, _)
NutLoop(lst, i, cals) ==
    IF i > Len(lst) THEN cals
    ELSE NutLoop(lst, i + 1,
                 IF lst[i] \in KnownPhrases THEN cals + CaloriesOf[lst[i]]
                 ELSE NutKeys(Clean(lst[i]), 1, cals))

\* def nutrition(lst)
nutrition(lst) == [calories |-> NutLoop(lst, 1, 0)]

\* the quantity and unit texts a phrase starts with: none, a quantity and a
\* unit, a quantity alone, and a quantity with the unit written against it
w_1 == <<"1"," ">>
w_500g == <<"5","0","0","g"," ">>
w_2grams == <<"2","g","r","a","m","s"," ">>

Quantities == {<< >>, w_2_cups \o <<" ">>, w_1, w_500g, w_2grams}

\* the ingredients the phrases are about
Foods == {w_rice, w_onion, w_chickpea_flour, w_coriander}

\* a phrase of the list: the quantity text and the ingredient it is put before
Items == [qty : Quantities, name : Foods]

\* the string of an item
Phrase(item) == item.qty \o item.name

\* the argument of nutrition for a sequence of items
PhraseList(items) == [i \in 1..Len(items) |-> Phrase(items[i])]

\* the ingredients of a sequence of items, without their quantity texts
NameList(items) == [i \in 1..Len(items) |-> items[i].name]

InitNut ==
    /\ df = << >>
    /\ pc = "estimate"
    /\ req = NoReq
    /\ sims = << >>
    /\ out = << >>
    /\ res = << >>
    /\ norm = << >>
    /\ recipe_emb = << >>
    /\ dataset = << >>
    /\ calls = << >>
    /\ nut \in {[items |-> items, result |-> << >>] :
                   items \in SeqsBetween(Items, 0, MaxBasket)}
    /\ trial = << >>
    /\ search = << >>

\* one call nutrition(lst)
Estimate ==
    /\ pc = "estimate"
    /\ nut' = [nut EXCEPT !.result = nutrition(PhraseList(nut.items))]
    /\ pc' = "estimated"
    /\ UNCHANGED <<df, req, sims, out, res, norm, recipe_emb, dataset, calls,
                 trial, search>>

NextNut == Estimate

SpecNut == InitNut /\ [][NextNut]_vars

(***************************************************************************)
(* load_recipes: the ingredients column of the file, cell by cell.  A cell *)
(* is known by what Python makes of it: kind says what the value is and,   *)
(* for a text, what ast.literal_eval gives for it; items are the elements  *)
(* of a list or tuple, text the characters the code reads.                 *)
(***************************************************************************)
w_5 == <<"5">>
w_rice_onion == <<"r","i","c","e",","," ","o","n","i","o","n">>

Cell(kind, items, text) == [kind |-> kind, items |-> items, text |-> text]

\* the rows of the file: name, ingredients cell and the cuisine of the row
LoadBook ==
    { [name |-> "a_list",    cuisine |-> w_Indian,
       ingredients |-> Cell("list", <<w_rice, w_onion>>, << >>)],
      [name |-> "a_nan",     cuisine |-> w_Indian,
       ingredients |-> Cell("nan", << >>, << >>)],
      [name |-> "lit_list",  cuisine |-> w_Indian,
       ingredients |-> Cell("lit_list", <<w_2_cups_rice, w_rice>>, << >>)],
      [name |-> "lit_tuple", cuisine |-> w_Indian,
       ingredients |-> Cell("lit_tuple", <<w_onion>>, << >>)],
      [name |-> "lit_int",   cuisine |-> w_Indian,
       ingredients |-> Cell("lit_int", << >>, w_5)],
      [name |-> "lit_str",   cuisine |-> w_Indian,
       ingredients |-> Cell("lit_str", << >>, w_rice)],
      [name |-> "plain",     cuisine |-> w_Indian,
       ingredients |-> Cell("plain", << >>, w_rice_onion)],
      [name |-> "a_number",  cuisine |-> w_Indian,
       ingredients |-> Cell("number", << >>, w_5)] }

\* the values of N_LIMIT: 0 loads every row
N_LIMITs == {0, 1}

Reverse(s) == [i \in 1..Len(s) |-> s[Len(s) + 1 - i]]

\* p.strip()
StripWs(s) ==
    LET t == Drop(s, RunLen(s, SpaceChars))
    IN  Take(t, Len(t) - RunLen(Reverse(t), SpaceChars))

\* s.split(",")
RECURSIVE SplitComma(_)
SplitComma(s) ==
    IF \E i \in DOMAIN s : s[i] = ","
    THEN LET i == CHOOSE k \in DOMAIN s : s[k] = "," /\ \A j \in 1..(k - 1) : s[j] # ","
         IN  <<Take(s, i - 1)>> \o SplitComma(Drop(s, i))
    ELSE <<s>>

\* [p.strip() for p in parts if p.strip()]
RECURSIVE StripParts(_)
StripParts(parts) ==
    IF parts = << >> THEN << >>
    ELSE IF StripWs(Head(parts)) = << >> THEN StripParts(Tail(parts))
    ELSE <<StripWs(Head(parts))>> \o StripParts(Tail(parts))

\* ast.literal_eval(x): the value and its type, or raised
literal_eval(x) ==
    CASE x.kind = "lit_list"  -> [raised |-> FALSE, type |-> "list", val |-> x.items]
      [] x.kind = "lit_tuple" -> [raised |-> FALSE, type |-> "tuple", val |-> x.items]
      [] x.kind = "lit_int"   -> [raised |-> FALSE, type |-> "int", val |-> x.text]
      [] x.kind = "lit_str"   -> [raised |-> FALSE, type |-> "str", val |-> x.text]
      [] OTHER                -> [raised |-> TRUE, type |-> "", val |-> << >>]

\* list(val) for a val that is no list and no tuple: the characters of a
\* string; TypeError for an int
ListOf(lit) ==
    IF lit.type = "str"
    THEN [raised |-> FALSE, val |-> [i \in 1..Len(lit.val) |-> <<lit.val[i]>>]]
    ELSE [raised |-> TRUE, val |-> << >>]

\* the inner function parse_ing(x) of load_recipes: the list, or raised
parse_ing(x) ==
    IF x.kind = "list" THEN [raised |-> FALSE, val |-> x.items]
    ELSE IF x.kind = "nan" THEN [raised |-> FALSE, val |-> << >>]
    ELSE LET lit == literal_eval(x)
         IN  IF lit.raised
             THEN [raised |-> FALSE, val |-> StripParts(SplitComma(x.text))]
             ELSE IF lit.type \in {"list", "tuple"}
             THEN [raised |-> FALSE, val |-> lit.val]
             ELSE ListOf(lit)


\* df["ingredients"] = df["ingredients"].apply(parse_ing): the rows, or
\* raised when parse_ing raises on one of them
load_recipes(rows) ==
    IF \E i \in DOMAIN rows : parse_ing(rows[i].ingredients).raised
    THEN [raised |-> TRUE, rows |-> << >>]
    ELSE [raised |-> FALSE,
          rows |-> [i \in 1..Len(rows) |->
                       [name |-> rows[i].name, cuisine |-> rows[i].cuisine,
                        ingredients |-> parse_ing(rows[i].ingredients).val]]]

\* if N_LIMIT > 0: df = df.iloc[:N_LIMIT]
Limit(rows, n_limit) == IF n_limit > 0 THEN SliceTo(rows, n_limit) ELSE rows

\* the corpus and the matrix the server starts with
Started_EncodesAll(ds) ==
    LET loaded == load_recipes(ds.rows)
    IN  [raised |-> loaded.raised,
         df |-> build_embeddings(Limit(loaded.rows, ds.n_limit)),
         emb |-> Embeddings(build_embeddings(loaded.rows))]

\* df = load_recipes(CSV_PATH); df = df.iloc[:N_LIMIT];
\* df, recipe_emb = build_embeddings(df)
Started(ds) ==
    LET loaded == load_recipes(ds.rows)
        d == build_embeddings(Limit(loaded.rows, ds.n_limit))
    IN  [raised |-> loaded.raised, df |-> d, emb |-> Embeddings(d)]

InitLoad ==
    /\ df = << >>
    /\ pc = "boot"
    /\ req = NoReq
    /\ sims = << >>
    /\ out = << >>
    /\ res = << >>
    /\ norm = << >>
    /\ recipe_emb = << >>
    /\ dataset \in [rows : SeqsBetween(LoadBook, 1, MaxRecipes), n_limit : N_LIMITs]
    /\ calls = << >>
    /\ nut = << >>
    /\ trial = << >>
    /\ search = << >>

\* the module is imported: the file is loaded, cut to N_LIMIT rows, cleaned
\* and encoded; an exception of load_recipes ends the process
Startup ==
    /\ pc = "boot"
    /\ IF Started(dataset).raised
       THEN /\ pc' = "crashed"
            /\ UNCHANGED <<df, recipe_emb>>
       ELSE /\ pc' = "idle"
            /\ df' = Started(dataset).df
            /\ recipe_emb' = Started(dataset).emb
    /\ UNCHANGED <<req, sims, out, res, norm, dataset, calls, nut,
                 trial, search>>

NextLoad == Startup

SpecLoad == InitLoad /\ [][NextLoad]_vars

(***************************************************************************)
(* The handlers of the server: what they add to the records of recommend.  *)
(***************************************************************************)
w_pulao == <<"p","u","l","a","o">>
w_chutney == <<"c","h","u","t","n","e","y">>
w_plain == <<"p","l","a","i","n">>
w_hyderabadi == <<"h","y","d","e","r","a","b","a","d","i">>
w_indian == <<"i","n","d","i","a","n">>
w_GENERAL == <<"G","E","N","E","R","A","L">>

\* the dict indian_regions of add_region_to_recipe, in the order of its items()
indian_regions ==
    << <<<<"n","o","r","t","h"," ","i","n","d","i","a","n">>, "North India">>,
       <<<<"p","u","n","j","a","b","i">>, "Punjab">>,
       <<<<"d","e","l","h","i">>, "Delhi">>,
       <<<<"r","a","j","a","s","t","h","a","n","i">>, "Rajasthan">>,
       <<<<"k","a","s","h","m","i","r","i">>, "Kashmir">>,
       <<<<"s","o","u","t","h"," ","i","n","d","i","a","n">>, "South India">>,
       <<<<"t","a","m","i","l">>, "Tamil Nadu">>,
       <<<<"k","e","r","a","l","a">>, "Kerala">>,
       <<<<"a","n","d","h","r","a">>, "Andhra Pradesh">>,
       <<<<"k","a","r","n","a","t","a","k","a">>, "Karnataka">>,
       <<<<"b","e","n","g","a","l","i">>, "West Bengal">>,
       <<<<"k","o","l","k","a","t","a">>, "West Bengal">>,
       <<<<"m","a","h","a","r","a","s","h","t","r","i","a","n">>, "Maharashtra">>,
       <<<<"m","u","m","b","a","i">>, "Maharashtra">>,
       <<<<"g","u","j","a","r","a","t","i">>, "Gujarat">>,
       <<<<"g","o","a","n">>, "Goa">>,
       <<<<"h","y","d","e","r","a","b","a","d","i">>, "Telangana">>,
       <<<<"b","i","h","a","r","i">>, "Bihar">>,
       <<<<"a","w","a","d","h","i">>, "Uttar Pradesh">>,
       <<<<"l","u","c","k","n","o","w">>, "Uttar Pradesh">> >>

\* the dict international_regions
international_regions ==
    << <<<<"i","t","a","l","i","a","n">>, "Italy">>,
       <<<<"c","h","i","n","e","s","e">>, "China">>,
       <<<<"t","h","a","i">>, "Thailand">>,
       <<<<"m","e","x","i","c","a","n">>, "Mexico">>,
       <<<<"j","a","p","a","n","e","s","e">>, "Japan">>,
       <<<<"f","r","e","n","c","h">>, "France">>,
       <<<<"g","r","e","e","k">>, "Greece">>,
       <<<<"s","p","a","n","i","s","h">>, "Spain">>,
       <<<<"a","m","e","r","i","c","a","n">>, "USA">>,
       <<<<"k","o","r","e","a","n">>, "South Korea">>,
       <<<<"v","i","e","t","n","a","m","e","s","e">>, "Vietnam">>,
       <<<<"l","e","b","a","n","e","s","e">>, "Lebanon">>,
       <<<<"t","u","r","k","i","s","h">>, "Turkey">>,
       <<<<"m","o","r","o","c","c","a","n">>, "Morocco">>,
       <<<<"b","r","a","z","i","l","i","a","n">>, "Brazil">> >>

\* the dict dish_regions, built for the lowered title of the recipe
dish_regions(title) ==
    << <<<<"b","i","r","y","a","n","i">>,
          IF InStr(w_hyderabadi, title) THEN "Hyderabad (Telangana)" ELSE "India">>,
       <<<<"d","o","s","a">>, "South India">>,
       <<<<"i","d","l","i">>, "South India">>,
       <<<<"u","t","t","a","p","a","m">>, "South India">>,
       <<<<"s","a","m","b","a","r">>, "South India">>,
       <<<<"p","a","n","e","e","r">>, "North India">>,
       <<<<"c","h","o","l","e">>, "Punjab">>,
       <<<<"b","h","a","t","u","r","e">>, "Punjab">>,
       <<<<"t","i","k","k","a">>, "Punjab">>,
       <<<<"t","a","n","d","o","o","r","i">>, "Punjab">>,
       <<<<"r","o","g","a","n"," ","j","o","s","h">>, "Kashmir">>,
       <<<<"d","h","o","k","l","a">>, "Gujarat">>,
       <<<<"t","h","e","p","l","a">>, "Gujarat">>,
       <<<<"v","a","d","a"," ","p","a","v">>, "Maharashtra">>,
       <<<<"p","a","v"," ","b","h","a","j","i">>, "Maharashtra">>,
       <<<<"m","i","s","a","l"," ","p","a","v">>, "Maharashtra">>,
       <<<<"r","a","s","g","u","l","l","a">>, "West Bengal">>,
       <<<<"s","a","n","d","e","s","h">>, "West Bengal">>,
       <<<<"l","i","t","t","i"," ","c","h","o","k","h","a">>, "Bihar">> >>

\* for key, region in table.items(): if key in text: the place of the first
\* such item, 0 when there is none
FirstIn(table, text) ==
    IF \E n \in DOMAIN table : InStr(table[n][1], text)
    THEN CHOOSE n \in DOMAIN table :
             /\ InStr(table[n][1], text)
             /\ \A j \in 1..(n - 1) : ~InStr(table[j][1], text)
    ELSE 0

\* def add_region_to_recipe(recipe): the recipe with its region, or raised;
\* None.lower() raises AttributeError.  A recipe left without "region" has
\* region None here
add_region_to_recipe(recipe) ==
    IF recipe.cuisine = None THEN [raised |-> TRUE, recipe |-> recipe]
    ELSE LET cuisine == Lower(recipe.cuisine)
             title == Lower(recipe.title)
             a == FirstIn(indian_regions, cuisine)
             b == FirstIn(international_regions, cuisine)
             c == FirstIn(dish_regions(title), title)
             region == IF a > 0 THEN indian_regions[a][2]
                       ELSE IF b > 0 THEN international_regions[b][2]
                       ELSE IF c > 0 THEN dish_regions(title)[c][2]
                       ELSE IF InStr(w_indian, cuisine) THEN "India"
                       ELSE "None"
         IN  [raised |-> FALSE, recipe |-> recipe @@ [region |-> region]]

\* s.upper()
UpperChar(c) ==
    IF c \in Range(LowerLetters)
    THEN UpperLetters[CHOOSE i \in DOMAIN LowerLetters : LowerLetters[i] = c]
    ELSE c

Upper(s) == [i \in 1..Len(s) |-> UpperChar(s[i])]

\* def get_recipe_image_url(recipe_name, cuisine): some address found for
\* the name, whichever source gives it; a string name never makes it raise
get_recipe_image_url(recipe_name, cuisine) == [image_of |-> recipe_name]

\* def make_prompt(name, lst, cuisine): the values the text is written from
make_prompt(name, lst, cuisine) ==
    [name |-> name, main |-> JoinComma(SliceTo(lst, 4)), cuisine |-> cuisine]

\* int((present_count / total_ingredients) * 100) if total_ingredients > 0 else 0
match_percentage(rec) ==
    IF Len(rec.ingredients) > 0
    THEN (Len(rec.present) * 100) \div Len(rec.ingredients)
    ELSE 0

\* the dict recipe_data of search_by_ingredients for one record of recommend
recipe_data(rec) ==
    [title |-> rec.name,
     ingredients |-> rec.ingredients,
     present_ingredients |-> rec.present,
     missing_ingredients |-> rec.missing,
     match_score |-> rec.score,
     match_percentage |-> match_percentage(rec),
     cuisine |-> rec.cuisine,
     substitutions |-> rec.substitutions,
     image_url |-> get_recipe_image_url(rec.name, rec.cuisine),
     category |-> IF rec.cuisine = None THEN w_GENERAL ELSE Upper(rec.cuisine)]

\* the value search_by_ingredients returns for the list recommend gave it: an
\* exception raised while the list is formatted is caught, and the error
\* returned has no recipes
search_by_ingredients(r, recs) ==
    LET formatted == [n \in 1..Len(recs) |-> add_region_to_recipe(recipe_data(recs[n]))]
    IN  IF \E n \in DOMAIN formatted : formatted[n].raised
        THEN [success |-> FALSE, error |-> "AttributeError", recipes |-> << >>]
        ELSE [success |-> TRUE,
              recipes |-> [n \in 1..Len(recs) |-> formatted[n].recipe],
              total_found |-> Len(recs),
              ingredients_searched |-> r.ingredients]

\* the value recommend_api returns: nutrition and image_prompt are set on
\* each record of the list
recommend_api(r, recs) ==
    [recipes |-> [n \in 1..Len(recs) |->
                     recs[n] @@ [nutrition |-> nutrition(recs[n].ingredients),
                                 image_prompt |-> make_prompt(recs[n].name,
                                                              recs[n].ingredients,
                                                              recs[n].cuisine)]]]

\* the response of an endpoint to the list recommend returned
Respond(endpoint, r, recs) ==
    IF endpoint = "recommend" THEN recommend_api(r, recs)
    ELSE search_by_ingredients(r, recs)

\* recommend from the cleaned user terms on: the kept records, sorted and cut
Ranked(d, user_clean, scores, top_n, max_missing) ==
    SliceTo(SortDesc(ScanRows(1, d, user_clean, scores, max_missing), << >>), top_n)

(***************************************************************************)
(* The server: the corpus built at startup, and the requests of several    *)
(* clients handled at once, each by a run of its own of a handler.  A run  *)
(* stops where it waits for the embedding provider.                        *)
(***************************************************************************)
\* the rows of the file the server is started on
ServeBook ==
    { [name |-> w_pulao,   cuisine |-> w_Indian,
       ingredients |-> Cell("lit_list", <<w_rice, w_onion, w_tomato>>, << >>)],
      [name |-> w_chutney, cuisine |-> None,
       ingredients |-> Cell("plain", << >>, w_coriander)],
      [name |-> w_plain,   cuisine |-> w_Italian,
       ingredients |-> Cell("nan", << >>, << >>)] }

Clients == {"c1", "c2"}

Endpoints == {"recommend", "search"}

\* the bodies the clients post
ServeReqs ==
    {r \in [ingredients : {<< >>, <<w_rice>>, <<w_dhaniya, w_cilantro>>},
            top_n : {1, 8},
            max_missing : {2}] : r.top_n = 1 => r.ingredients = <<w_rice>>}

\* the similarities the provider answers with, in tenths
ServeScores == {-2, 6}

\* the process is up: pc tells whether a call of the provider has raised
\* since startup
Up == pc \in {"idle", "idle_after_failure"}

\* a client without a request in flight
IdleCall ==
    [pc |-> "idle", endpoint |-> "", req |-> NoReq, user_clean |-> << >>,
     sims |-> << >>, res |-> << >>, response |-> << >>]

InitServe ==
    /\ dataset \in [rows : SeqsBetween(ServeBook, 1, MaxRecipes), n_limit : N_LIMITs]
    /\ ~Started(dataset).raised
    /\ df = Started(dataset).df
    /\ recipe_emb = Started(dataset).emb
    /\ pc = "idle"
    /\ req = NoReq
    /\ sims = << >>
    /\ out = << >>
    /\ res = << >>
    /\ norm = << >>
    /\ calls = [c \in Clients |-> IdleCall]
    /\ nut = << >>
    /\ trial = << >>
    /\ search = << >>

\* the empty list handed to recommend like any other, every row scored 0.6
Refuse_Ranks(c, r) ==
    /\ Up
    /\ calls[c].pc = "idle"
    /\ r.ingredients = << >>
    /\ calls' = [calls EXCEPT ![c] =
                    [IdleCall EXCEPT !.pc = "scored", !.endpoint = "search", !.req = r,
                                     !.sims = [i \in 1..Len(recipe_emb) |-> 6]]]
    /\ UNCHANGED <<df, pc, req, sims, out, res, norm, recipe_emb, dataset, nut,
                 trial, search>>

\* search_by_ingredients returns at once for an empty list of ingredients
Refuse(c, r) ==
    /\ Up
    /\ calls[c].pc = "idle"
    /\ r.ingredients = << >>
    /\ calls' = [calls EXCEPT ![c] =
                    [IdleCall EXCEPT !.pc = "refused", !.endpoint = "search", !.req = r,
                                     !.response = [raised |-> FALSE,
                                                   body |-> [success |-> FALSE,
                                                             error |-> "No ingredients provided",
                                                             recipes |-> << >>]]]]
    /\ UNCHANGED <<df, pc, req, sims, out, res, norm, recipe_emb, dataset, nut,
                 trial, search>>

\* a handler calls recommend: the user terms are cleaned, and the provider
\* gives one similarity per vector of the matrix
Accept(c, endpoint, r, user_clean, scores) ==
    /\ Up
    /\ calls[c].pc = "idle"
    /\ ~(endpoint = "search" /\ r.ingredients = << >>)
    /\ calls' = [calls EXCEPT ![c] =
                    [IdleCall EXCEPT !.pc = "scored", !.endpoint = endpoint, !.req = r,
                                     !.user_clean = user_clean, !.sims = scores]]
    /\ UNCHANGED <<df, pc, req, sims, out, res, norm, recipe_emb, dataset, nut,
                 trial, search>>

\* the user terms taken in any order, as from a set
Begin_AnyOrder(c, endpoint, r, scores) ==
    LET terms == clean_list(r.ingredients)
        places == {f \in [DOMAIN terms -> DOMAIN terms] :
                      \A i \in DOMAIN terms, j \in DOMAIN terms : f[i] = f[j] => i = j}
    IN  \E f \in places :
            Accept(c, endpoint, r, [i \in DOMAIN terms |-> terms[f[i]]], scores)

\* user_clean = [clean_ing(i) for i in ings] ... sims = util.cos_sim(user_vec, emb)[0]
Begin(c, endpoint, r, scores) ==
    Accept(c, endpoint, r, clean_list(r.ingredients), scores)

\* the provider raises in recommend: recommend_api lets the exception out
\* of the handler, search_by_ingredients catches it and returns an error;
\* after is the state of the process from then on
Abort(c, endpoint, r, after) ==
    /\ Up
    /\ calls[c].pc = "idle"
    /\ ~(endpoint = "search" /\ r.ingredients = << >>)
    /\ calls' = [calls EXCEPT ![c] =
                    [IdleCall EXCEPT !.pc = "failed", !.endpoint = endpoint, !.req = r,
                                     !.response =
                                         IF endpoint = "recommend"
                                         THEN [raised |-> TRUE, body |-> << >>]
                                         ELSE [raised |-> FALSE,
                                               body |-> [success |-> FALSE,
                                                         error |-> "provider",
                                                         recipes |-> << >>]]]]
    /\ pc' = after
    /\ UNCHANGED <<df, req, sims, out, res, norm, recipe_emb, dataset, nut,
                 trial, search>>

\* the process ended by the exception
Fail_Crashes(c, endpoint, r) == Abort(c, endpoint, r, "crashed")

\* a request whose call of the provider raises: the process goes on
Fail(c, endpoint, r) == Abort(c, endpoint, r, "idle_after_failure")

\* the rest of the handler: the rows are scanned, the kept records sorted
\* and cut, and the response made of them; d is the corpus it leaves
Complete(c, d) ==
    /\ Up
    /\ calls[c].pc = "scored"
    /\ LET call == calls[c]
           recs == Ranked(df, call.user_clean, call.sims, call.req.top_n,
                          call.req.max_missing)
       IN  calls' = [calls EXCEPT ![c] =
                        [call EXCEPT !.pc = "served", !.res = recs,
                                     !.response = [raised |-> FALSE,
                                                   body |-> Respond(call.endpoint,
                                                                    call.req, recs)]]]
    /\ df' = d
    /\ UNCHANGED <<pc, req, sims, out, res, norm, recipe_emb, dataset, nut,
                 trial, search>>

\* the corpus left in the reverse order
Finish_ReordersCorpus(c) == Complete(c, Reverse(df))

\* recommend reads df and leaves it as it is
Finish(c) == Complete(c, df)

\* the response is sent; the client may post again
Reply(c) ==
    /\ Up
    /\ calls[c].pc \in {"refused", "failed", "served"}
    /\ calls' = [calls EXCEPT ![c] = IdleCall]
    /\ UNCHANGED <<df, pc, req, sims, out, res, norm, recipe_emb, dataset, nut,
                 trial, search>>

NextServe ==
    \E c \in Clients :
        \/ \E r \in ServeReqs : Refuse(c, r)
        \/ \E endpoint \in Endpoints, r \in ServeReqs,
              scores \in [1..Len(recipe_emb) -> ServeScores] :
               Begin(c, endpoint, r, scores)
        \/ \E endpoint \in Endpoints, r \in ServeReqs : Fail(c, endpoint, r)
        \/ Finish(c)
        \/ Reply(c)

SpecServe == InitServe /\ [][NextServe]_vars

(***************************************************************************)
(* The matching loop of recommend on its own: one recipe row matched       *)
(* against two user lists, one call after the other.                       *)
(***************************************************************************)
\* the raw ingredient lists of the rows tried
TrialRecipes ==
    { <<w_coriander>>, <<w_rice, w_coriander>>, <<w_dhaniya, w_2_cups_rice>>,
      <<w_coriander, w_coriander>> }

\* the raw phrases of the user lists tried
TrialVocab == {w_rice, w_coriander, w_cilantro, w_dhaniya, w_2_cups}

InitMatch ==
    /\ df = << >>
    /\ pc = "match"
    /\ req = NoReq
    /\ sims = << >>
    /\ out = << >>
    /\ res = << >>
    /\ norm = << >>
    /\ recipe_emb = << >>
    /\ dataset = << >>
    /\ calls = << >>
    /\ nut = << >>
    /\ trial \in {[clean |-> clean_list(ingredients), ings |-> a, other |-> b,
                   first |-> << >>, second |-> << >>] :
                      ingredients \in TrialRecipes,
                      a \in SeqsBetween(TrialVocab, 0, MaxUser),
                      b \in SeqsBetween(TrialVocab, 0, MaxUser)}
    /\ search = << >>

\* user_clean = clean_list(ings) and the loop over row["clean"], for ings
MatchFirst ==
    /\ pc = "match"
    /\ trial' = [trial EXCEPT
                    !.first = Matched(trial.clean, clean_list(trial.ings))]
    /\ pc' = "again"
    /\ UNCHANGED <<df, req, sims, out, res, norm, recipe_emb, dataset, calls,
                   nut, search>>

\* the same for the other list
MatchSecond ==
    /\ pc = "again"
    /\ trial' = [trial EXCEPT
                    !.second = Matched(trial.clean, clean_list(trial.other))]
    /\ pc' = "matched"
    /\ UNCHANGED <<df, req, sims, out, res, norm, recipe_emb, dataset, calls,
                   nut, search>>

NextMatch == MatchFirst \/ MatchSecond

SpecMatch == InitMatch /\ [][NextMatch]_vars

(***************************************************************************)
(* POST /api/search: search_recipes_post hands the request to              *)
(* search_google_recipes_api, which asks Gemini and then Google Custom     *)
(* Search.  The answers of the two services are the inputs; a recipe or a  *)
(* web result is kept as its title alone.                                  *)
(***************************************************************************)
max_retries == 5

\* what one requests.post to Gemini ends with: a status code, or an
\* exception raised by the call
PostOutcomes ==
    { [exc |-> "none", status_code |-> 200],
      [exc |-> "none", status_code |-> 503],
      [exc |-> "none", status_code |-> 500],
      [exc |-> "Timeout", status_code |-> 0],
      [exc |-> "ConnectionError", status_code |-> 0] }

\* the lists of recipes or of web results a service can answer with
Titles == {<< >>, <<w_pulao>>, <<w_pulao, w_chutney>>}

\* the body of a 200 answer of Gemini: no candidate, the JSON text of a
\* list, a list cut before its end, text that is no JSON, or a body without
\* the expected keys
Bodies ==
    [kind : {"list", "cut"}, recipes : Titles]
        \cup [kind : {"no_candidates", "garbage", "malformed"}, recipes : {<< >>}]

\* what requests.get to Google Custom Search ends with
GetOutcomes ==
    [exc : {"none"}, status_code : {200}, items : Titles]
        \cup [exc : {"none"}, status_code : {403}, items : {<< >>}]
        \cup [exc : {"Timeout"}, status_code : {0}, items : {<< >>}]

\* the handler before a request
NoSearch(keys) ==
    [GEMINI_API_KEY |-> keys.GEMINI_API_KEY,
     GOOGLE_API_KEY |-> keys.GOOGLE_API_KEY,
     GOOGLE_CX |-> keys.GOOGLE_CX,
     attempt |-> 0,
     sent |-> << >>,
     asked |-> << >>,
     ai_recipes |-> << >>,
     web_results |-> << >>,
     response |-> << >>]

InitSearch ==
    /\ df = << >>
    /\ pc = "ready"
    /\ req = NoReq
    /\ sims = << >>
    /\ out = << >>
    /\ res = << >>
    /\ norm = << >>
    /\ recipe_emb = << >>
    /\ dataset = << >>
    /\ calls = << >>
    /\ nut = << >>
    /\ trial = << >>
    /\ search \in {NoSearch(keys) :
                      keys \in [GEMINI_API_KEY : BOOLEAN, GOOGLE_API_KEY : BOOLEAN,
                                GOOGLE_CX : BOOLEAN]}

\* a request comes in: with a Gemini key generate_recipes_with_gemini is
\* called and enters its retry loop, without one the handler goes on to
\* Google
Post ==
    /\ pc \in {"ready", "answered"}
    /\ IF search.GEMINI_API_KEY
       THEN /\ search' = [NoSearch(search) EXCEPT !.asked = <<"gemini">>]
            /\ pc' = "sending"
       ELSE /\ search' = NoSearch(search)
            /\ pc' = "fallback"
    /\ UNCHANGED <<df, req, sims, out, res, norm, recipe_emb, dataset, calls,
                   nut, trial>>

\* generate_recipes_with_gemini returns: with recipes the handler answers
\* with them, with an empty list it goes on to Google
Generated(s, recipes) ==
    IF recipes # << >>
    THEN [pc |-> "answered",
          search |-> [s EXCEPT !.ai_recipes = recipes,
                               !.response = [success |-> TRUE, source |-> "gemini",
                                             results |-> recipes]]]
    ELSE [pc |-> "fallback", search |-> s]

\* one pass of  for attempt in range(max_retries)  with every failure
\* retried while attempts are left
Send_RetriesAnyFailure(outcome) ==
    /\ pc = "sending"
    /\ LET s == [search EXCEPT !.sent = Append(@, outcome)]
           retry == /\ ~(outcome.exc = "none" /\ outcome.status_code = 200)
                    /\ search.attempt < max_retries - 1
           next == IF retry
                   THEN [pc |-> "sending", search |-> [s EXCEPT !.attempt = @ + 1]]
                   ELSE IF outcome.exc = "none" /\ outcome.status_code = 200
                   THEN [pc |-> "parsing", search |-> s]
                   ELSE Generated(s, << >>)
       IN  /\ pc' = next.pc
           /\ search' = next.search
    /\ UNCHANGED <<df, req, sims, out, res, norm, recipe_emb, dataset, calls,
                   nut, trial>>

\* one pass of  for attempt in range(max_retries): the request is sent; a
\* 503 or a timeout is retried while attempts are left, any other status
\* but 200 and any other exception end the call with []
Send(outcome) ==
    /\ pc = "sending"
    /\ LET s == [search EXCEPT !.sent = Append(@, outcome)]
           retry == /\ \/ outcome.exc = "none" /\ outcome.status_code = 503
                       \/ outcome.exc = "Timeout"
                    /\ search.attempt < max_retries - 1
           next == IF retry
                   THEN [pc |-> "sending", search |-> [s EXCEPT !.attempt = @ + 1]]
                   ELSE IF outcome.exc = "none" /\ outcome.status_code = 200
                   THEN [pc |-> "parsing", search |-> s]
                   ELSE Generated(s, << >>)
       IN  /\ pc' = next.pc
           /\ search' = next.search
    /\ UNCHANGED <<df, req, sims, out, res, norm, recipe_emb, dataset, calls,
                   nut, trial>>

\* the text of the answer is read: the recipes of a JSON list, those saved
\* from a list cut short, and [] for everything else, an exception included
Parse(body) ==
    /\ pc = "parsing"
    /\ LET recipes == IF body.kind \in {"list", "cut"} THEN body.recipes ELSE << >>
           next == Generated(search, recipes)
       IN  /\ pc' = next.pc
           /\ search' = next.search
    /\ UNCHANGED <<df, req, sims, out, res, norm, recipe_emb, dataset, calls,
                   nut, trial>>

\* Google is asked whatever is configured
Fallback_Always ==
    /\ pc = "fallback"
    /\ search' = [search EXCEPT !.asked = Append(@, "google")]
    /\ pc' = "getting"
    /\ UNCHANGED <<df, req, sims, out, res, norm, recipe_emb, dataset, calls,
                   nut, trial>>

\* if GOOGLE_API_KEY and GOOGLE_CX: ... else the answer "No API configured"
Fallback ==
    /\ pc = "fallback"
    /\ IF search.GOOGLE_API_KEY /\ search.GOOGLE_CX
       THEN /\ search' = [search EXCEPT !.asked = Append(@, "google")]
            /\ pc' = "getting"
       ELSE /\ search' = [search EXCEPT
                            !.response = [success |-> FALSE, source |-> "none",
                                          results |-> << >>]]
            /\ pc' = "answered"
    /\ UNCHANGED <<df, req, sims, out, res, norm, recipe_emb, dataset, calls,
                   nut, trial>>

\* search_google_recipes: the items of a 200 answer, [] for another status
\* or an exception; the handler answers with whatever it returned
Get(outcome) ==
    /\ pc = "getting"
    /\ LET results == IF outcome.exc = "none" /\ outcome.status_code = 200
                      THEN outcome.items ELSE << >>
       IN  search' = [search EXCEPT
                         !.web_results = results,
                         !.response = [success |-> TRUE, source |-> "google",
                                       results |-> results]]
    /\ pc' = "answered"
    /\ UNCHANGED <<df, req, sims, out, res, norm, recipe_emb, dataset, calls,
                   nut, trial>>

NextSearch ==
    \/ Post
    \/ \E outcome \in PostOutcomes : Send(outcome)
    \/ \E body \in Bodies : Parse(body)
    \/ Fallback
    \/ \E outcome \in GetOutcomes : Get(outcome)

SpecSearch == InitSearch /\ [][NextSearch]_vars

\* requests.post is given timeout=60 and the waits between attempts are
\* sleeps of at most 40 s: a pass of the retry loop that can be made is made
SpecSearchLive ==
    SpecSearch /\ WF_vars(\E outcome \in PostOutcomes : Send(outcome))

(***************************************************************************)
(* Vocabulary of the properties.                                           *)
(***************************************************************************)
Done == pc = "done"

\* the cleaned user terms of the request being served
UserClean == clean_list(req.ingredients)

\* a present entry without its "(sub->u)" annotation: cleaned terms hold no
\* parenthesis, so the annotation starts at the first one
StripSub(p) ==
    IF \E i \in DOMAIN p : p[i] = "("
    THEN Take(p, (CHOOSE i \in DOMAIN p : p[i] = "(" /\ \A j \in 1..(i - 1) : p[j] # "(") - 1)
    ELSE p

StripAll(ps) == [i \in DOMAIN ps |-> StripSub(ps[i])]

\* terms is ps and ms shuffled together, each keeping its order: every
\* position of terms is taken by exactly one entry of ps or of ms
RECURSIVE Reconstructs(_, _, _)
Reconstructs(terms, ps, ms) ==
    IF terms = << >> THEN ps = << >> /\ ms = << >>
    ELSE \/ ps # << >> /\ Head(ps) = Head(terms)
               /\ Reconstructs(Tail(terms), Tail(ps), ms)
         \/ ms # << >> /\ Head(ms) = Head(terms)
               /\ Reconstructs(Tail(terms), ps, Tail(ms))

\* r and u overlap: equal, or one a substring of the other
Overlaps(r, u) == r = u \/ InStr(r, u) \/ InStr(u, r)

OverlapsUser(r) == \E n \in DOMAIN UserClean : Overlaps(r, UserClean[n])

\* some user term is a declared substitute of r
ForwardLinked(r) == \E n \in DOMAIN UserClean : InList(UserClean[n], get_sub(r))

\* some user term declares r as its substitute
ReverseLinked(r) == \E n \in DOMAIN UserClean : InList(r, get_sub(UserClean[n]))

Returned(idx) == \E n \in DOMAIN res : res[n].idx = idx

Kept(idx) == \E n \in DOMAIN out : out[n].idx = idx

(***************************************************************************)
(* C1.  Match-count consistency: in every record recommend returns,        *)
(* match_count is the length of present, and present (annotations          *)
(* stripped) with missing rebuilds the recipe's cleaned ingredient list:   *)
(* every position of the list is reported exactly once, in order, and no   *)
(* term is reported both present and missing; a recipe that holds the same *)
(* cleaned term twice has it reported twice.                               *)
(***************************************************************************)
C1_MatchCountConsistent ==
    Done =>
        \A n \in DOMAIN res :
            LET rec == res[n]
                ps == StripAll(rec.present)
            IN  /\ rec.match_count = Len(rec.present)
                /\ Reconstructs(df[rec.idx].clean, ps, rec.missing)
                /\ Len(ps) + Len(rec.missing) = Len(df[rec.idx].clean)
                /\ \A i \in DOMAIN ps : ~InList(ps[i], rec.missing)

\* a returned recipe whose two raw ingredients clean to the same term, both
\* reported present, next to a recipe with an entry present by substitution
C1_Witness ==
    /\ Done
    /\ \E n \in DOMAIN res :
          /\ df[res[n].idx].clean = <<w_rice, w_rice>>
          /\ res[n].present = <<w_rice, w_rice>>
    /\ \E n \in DOMAIN res :
          /\ res[n].substitutions # << >>
          /\ res[n].match_count = 1

(***************************************************************************)
(* C2.  Missing-count invariant: every returned record has at most         *)
(* max_missing missing ingredients; so with max_missing = 0 no recipe with *)
(* a missing ingredient is returned whatever its similarity, and with      *)
(* max_missing < 0 nothing is returned.                                    *)
(***************************************************************************)
C2_MissingWithinMax ==
    Done =>
        /\ \A n \in DOMAIN res : Len(res[n].missing) <= req.max_missing
        /\ req.max_missing = 0 =>
              \A idx \in DOMAIN df :
                  Matched(df[idx].clean, UserClean).missing # << >> => ~Returned(idx)
        /\ req.max_missing < 0 => res = << >>

\* max_missing = 0: a recipe with a missing ingredient and similarity 0.6 is
\* left out while a fully matched one is returned
C2_Witness ==
    /\ Done
    /\ req.max_missing = 0
    /\ res # << >>
    /\ \E idx \in DOMAIN df :
          /\ Matched(df[idx].clean, UserClean).missing # << >>
          /\ sims[idx] = 6
          /\ ~Returned(idx)

C4_InclusionFilter ==
    Done =>
        /\ \A idx \in DOMAIN df :
              LET m == Matched(df[idx].clean, UserClean)
              IN  Kept(idx) <=>
                      /\ Len(m.present) > 0 \/ sims[idx] > 5
                      /\ Len(m.missing) <= req.max_missing
        /\ \A i, j \in DOMAIN out : out[i].idx = out[j].idx => i = j
        /\ \A i \in DOMAIN out :
              LET rec == out[i]
                  m == Matched(df[rec.idx].clean, UserClean)
              IN  /\ rec.present = m.present
                  /\ rec.missing = m.missing
                  /\ rec.substitutions = m.subs_used
                  /\ rec.original_score = sims[rec.idx]
                  /\ rec.name = df[rec.idx].name
                  /\ rec.ingredients = df[rec.idx].ingredients
        /\ \A n \in DOMAIN res : \E i \in DOMAIN out : res[n] = out[i]

\* of two rows without a present ingredient, the one at similarity 0.6 is
\* kept and the one at exactly 0.5 is not
C4_Witness ==
    /\ Done
    /\ \E i, j \in DOMAIN df :
          /\ Matched(df[i].clean, UserClean).present = << >>
          /\ Matched(df[j].clean, UserClean).present = << >>
          /\ Len(df[j].clean) <= req.max_missing
          /\ sims[i] = 6 /\ Kept(i)
          /\ sims[j] = 5 /\ ~Kept(j)

(***************************************************************************)
(* C5.  Direct overlap: in every kept record, a cleaned recipe term that   *)
(* equals, contains or is contained in a cleaned user term is reported     *)
(* present, as itself; a term with no overlap and no substitution link to  *)
(* any user term is reported missing; both lists keep the recipe's order.  *)
(* Recipe [rice, onion, tomato] with user [rice, onion] gives              *)
(* present = [rice, onion], missing = [tomato], match_count = 2.           *)
(***************************************************************************)
C5_DirectOverlap ==
    Done =>
        \A n \in DOMAIN out :
            LET rec == out[n]
                terms == df[rec.idx].clean
            IN  /\ \A k \in DOMAIN terms :
                      /\ OverlapsUser(terms[k]) =>
                            InList(terms[k], rec.present)
                      /\ ( /\ ~OverlapsUser(terms[k])
                           /\ ~ForwardLinked(terms[k])
                           /\ ~ReverseLinked(terms[k]) ) =>
                            InList(terms[k], rec.missing)
                /\ Reconstructs(terms, StripAll(rec.present), rec.missing)
                /\ ( terms = <<w_rice, w_onion, w_tomato>>
                     /\ UserClean = <<w_rice, w_onion>> ) =>
                        /\ rec.present = <<w_rice, w_onion>>
                        /\ rec.missing = <<w_tomato>>
                        /\ rec.match_count = 2

\* the scenario itself, returned
C5_Witness ==
    /\ Done
    /\ req.ingredients = <<w_rice, w_onion>>
    /\ \E n \in DOMAIN res :
          /\ df[res[n].idx].clean = <<w_rice, w_onion, w_tomato>>
          /\ res[n].present = <<w_rice, w_onion>>
          /\ res[n].missing = <<w_tomato>>
          /\ res[n].match_count = 2

(***************************************************************************)
(* C6.  Forward substitution before reverse substitution: in every kept    *)
(* record, a recipe term r without direct overlap of which some user term  *)
(* is a declared substitute is reported present by substitution, with      *)
(* substitutions[r] one of those user terms, also when an earlier user     *)
(* term declares r among its own substitutes.                              *)
(***************************************************************************)
C6_ForwardBeforeReverse ==
    Done =>
        \A n \in DOMAIN out :
            LET rec == out[n]
                terms == df[rec.idx].clean
            IN  \A k \in DOMAIN terms :
                    (~OverlapsUser(terms[k]) /\ ForwardLinked(terms[k])) =>
                        \E i \in DOMAIN UserClean :
                            /\ InList(UserClean[i], get_sub(terms[k]))
                            /\ InList(Annotate(terms[k], UserClean[i]), rec.present)
                            /\ InList(<<terms[k], UserClean[i]>>, rec.substitutions)

\* one recipe with the one raw ingredient a word of the substitution table,
\* asked for with one ingredient, with room for it in the result
OneOnOne ==
    /\ Done
    /\ Len(df) = 1
    /\ Len(df[1].ingredients) = 1
    /\ Len(req.ingredients) = 1
    /\ req.top_n >= 1
    /\ req.max_missing >= 0

(***************************************************************************)
(* C7.  Every declared entry r -> s works as curd -> yogurt does: with the *)
(* recipe's ingredient r and the user's list [s], r and s not overlapping, *)
(* recommend reports r present by substitution, substitutions = {r: s}.    *)
(***************************************************************************)
C7_DeclaredEntryHonoured ==
    OneOnOne =>
        LET r == df[1].ingredients[1]
            s == req.ingredients[1]
        IN  ( /\ InList(s, SubsGet(r))
              /\ ~Overlaps(r, s)
              /\ ~Overlaps(Clean(r), Clean(s)) ) =>
                /\ Len(res) = 1
                /\ res[1].present = <<Annotate(r, s)>>
                /\ res[1].missing = << >>
                /\ res[1].substitutions = << <<r, s>> >>

(***************************************************************************)
(* C8.  The reverse check makes up for the table's asymmetry: for every    *)
(* declared entry k -> s, with the recipe's raw ingredient s and the       *)
(* user's list [k], the recipe's ingredient is reported present, whether   *)
(* or not the table declares s -> k.                                       *)
(***************************************************************************)
C8_ReverseCompensates ==
    OneOnOne =>
        LET s == df[1].ingredients[1]
            k == req.ingredients[1]
        IN  InList(s, SubsGet(k)) =>
                /\ Len(res) = 1
                /\ Len(res[1].present) = 1
                /\ res[1].missing = << >>

(***************************************************************************)
(* C9.  recommend called with top_n <= 0, zero or negative, returns an     *)
(* empty list.                                                             *)
(***************************************************************************)
C9_NonPositiveTopNEmpty ==
    (Done /\ req.top_n <= 0) => res = << >>

(***************************************************************************)
(* C10.  Normalization is idempotent: clean_ing(clean_ing(s)) equals       *)
(* clean_ing(s) for every phrase s, a quantity glued to a unit included.   *)
(***************************************************************************)
C10_CleanIdempotent ==
    pc = "twice" => norm[3] = norm[2]

(***************************************************************************)
(* The boost.                                                              *)
(***************************************************************************)
\* present_count / total_count of a kept record, 0 for a row of no ingredient
MatchRatio(r) ==
    IF Len(df[r.idx].clean) > 0
    THEN [num |-> r.match_count, den |-> Len(df[r.idx].clean)]
    ELSE [num |-> 0, den |-> 1]

\* C11: at one and the same semantic score, negative ones included, a record
\* of greater match ratio never has the smaller boosted score
C11_BoostMonotone ==
    Done => \A a \in Range(out), b \in Range(out) :
                (a.original_score = b.original_score
                    /\ ~FracLess(MatchRatio(b), MatchRatio(a)))
                => ~FracLess(b.score, a.score)

\* C12: every returned record carries the semantic score the provider gave
\* its row, and its score is that score times (1 + present/total), or that
\* score itself for a row of no ingredient
C12_BoostFormula ==
    Done => \A n \in DOMAIN res :
                LET r == res[n]
                    total == Len(df[r.idx].clean)
                IN  /\ r.original_score = sims[r.idx]
                    /\ r.score.den > 0
                    /\ IF total > 0
                       THEN r.score.num * total
                                = r.original_score * (total + Len(r.present)) * r.score.den
                       ELSE r.score.num = r.original_score * r.score.den

\* a boosted record and a record of a row without ingredients, returned together
C12_Witness ==
    /\ Done
    /\ \E n \in DOMAIN res : /\ Len(df[res[n].idx].clean) > 0
                             /\ Len(res[n].present) > 0
                             /\ res[n].score.num # res[n].original_score * res[n].score.den
    /\ \E n \in DOMAIN res : Len(df[res[n].idx].clean) = 0

(***************************************************************************)
(* The empty user list.                                                    *)
(***************************************************************************)
\* C14: for an empty user list the kept rows are exactly those of semantic
\* score above 0.5 with at most max_missing ingredients, each with nothing
\* present and all its cleaned ingredients missing
C14_EmptyUserList ==
    (Done /\ req.ingredients = << >>) =>
        /\ \A idx \in DOMAIN df :
               Kept(idx) <=> (sims[idx] > 5 /\ Len(df[idx].clean) <= req.max_missing)
        /\ \A n \in DOMAIN out : /\ out[n].present = << >>
                                 /\ out[n].match_count = 0
                                 /\ out[n].missing = df[out[n].idx].clean
        /\ \A n \in DOMAIN res : \E k \in DOMAIN out : res[n] = out[k]

\* an empty user list with a row kept and a row cut
C14_Witness ==
    /\ Done
    /\ req.ingredients = << >>
    /\ \E n \in DOMAIN out : out[n].missing # << >>
    /\ \E idx \in DOMAIN df : ~Kept(idx) /\ df[idx].clean # << >>

(***************************************************************************)
(* The nutrition estimate.                                                 *)
(***************************************************************************)
Rice2CupsOnion1 ==
    <<[qty |-> w_2_cups \o <<" ">>, name |-> w_rice], [qty |-> w_1, name |-> w_onion]>>

\* C15: the estimate of a list of phrases is the estimate of their
\* ingredients without the quantity and unit texts; ['2 cups rice',
\* '1 onion'] gives rice + onion, each once
C15_QuantityIndependent ==
    pc = "estimated" =>
        /\ nut.result = nutrition(NameList(nut.items))
        /\ nut.items = Rice2CupsOnion1 => nut.result = [calories |-> 130 + 40]

(***************************************************************************)
(* Loading the file.                                                       *)
(***************************************************************************)
\* an ingredients cell that is missing, not a list, or a literal that is not
\* a list
Malformed(x) == x.kind \in {"nan", "number", "lit_int", "lit_str"}

\* C16: the load never fails on a malformed ingredients cell: the row of
\* such a cell stays, with no ingredients, and every row read gives one record
C16_MalformedDegrades ==
    /\ pc # "crashed"
    /\ pc = "idle" =>
           /\ Len(df) = Len(Limit(dataset.rows, dataset.n_limit))
           /\ \A i \in DOMAIN df :
                  /\ df[i].name = dataset.rows[i].name
                  /\ Malformed(dataset.rows[i].ingredients) => df[i].ingredients = << >>

(***************************************************************************)
(* The server.                                                             *)
(***************************************************************************)
Served(c) == calls[c].pc = "served"

\* the response a request gets from a server that has handled nothing else
\* since startup
Alone(c) ==
    [raised |-> FALSE,
     body |-> Respond(calls[c].endpoint, calls[c].req,
                      Ranked(Started(dataset).df, clean_list(calls[c].req.ingredients),
                             calls[c].sims, calls[c].req.top_n,
                             calls[c].req.max_missing))]

\* C13: two calls with the same arguments on the same corpus, to which the
\* provider gave the same similarities, return the same records in the same
\* order, whatever was served before and between them
C13_SameCallSameResult ==
    \A a \in Clients, b \in Clients :
        (Served(a) /\ Served(b) /\ calls[a].req = calls[b].req
            /\ calls[a].sims = calls[b].sims)
        => /\ calls[a].res = calls[b].res
           /\ calls[a].endpoint = calls[b].endpoint
                  => calls[a].response = calls[b].response

\* two clients served the same call, two user terms in it and a record back
C13_Witness ==
    \E a \in Clients, b \in Clients :
        /\ a # b
        /\ Served(a) /\ Served(b)
        /\ calls[a].req = calls[b].req
        /\ calls[a].sims = calls[b].sims
        /\ Len(calls[a].req.ingredients) = 2
        /\ calls[a].res # << >>

\* C17: at every moment the matrix has one vector per row of the corpus,
\* vector i made from the cleaned ingredients of row i, the cleaned list of
\* a row follows its raw list term by term, and the rows are the first rows
\* of the file, all of them or N_LIMIT of them
C17_EmbeddingsAligned ==
    /\ Len(recipe_emb) = Len(df)
    /\ Len(df) = Len(Limit(dataset.rows, dataset.n_limit))
    /\ \A i \in DOMAIN df :
           /\ recipe_emb[i] = Encode(JoinComma(df[i].clean))
           /\ df[i].name = dataset.rows[i].name
           /\ Len(df[i].clean) = Len(df[i].ingredients)
           /\ \A k \in DOMAIN df[i].clean : df[i].clean[k] = Clean(df[i].ingredients[k])

\* a file cut by N_LIMIT, after a request was served from it
C17_Witness ==
    /\ dataset.n_limit > 0
    /\ Len(dataset.rows) > Len(df)
    /\ df # << >>
    /\ \E c \in Clients : Served(c) /\ calls[c].res # << >>

\* C18: however the requests of the clients interleave, the corpus and the
\* matrix stay what startup made them, and each request served gets the
\* response it would get alone
C18_RequestsLeaveCorpus ==
    /\ df = Started(dataset).df
    /\ recipe_emb = Started(dataset).emb
    /\ \A c \in Clients : Served(c) => calls[c].response = Alone(c)

\* two requests in flight at once, different, both served with records
C18_Witness ==
    \E a \in Clients, b \in Clients :
        /\ Served(a) /\ Served(b)
        /\ calls[a].req # calls[b].req
        /\ calls[a].res # << >>
        /\ calls[b].res # << >>

\* what a list of records says of the ranking: which recipes, in which
\* order, with what present, missing and score
Ranking(recs) ==
    [n \in 1..Len(recs) |->
        [name |-> recs[n].name, present |-> recs[n].present,
         missing |-> recs[n].missing, score |-> recs[n].score]]

\* the same of the recipes listed in a response
Listed(c) ==
    LET recipes == calls[c].response.body.recipes
    IN  IF calls[c].endpoint = "recommend" THEN Ranking(recipes)
        ELSE [n \in 1..Len(recipes) |->
                 [name |-> recipes[n].title,
                  present |-> recipes[n].present_ingredients,
                  missing |-> recipes[n].missing_ingredients,
                  score |-> recipes[n].match_score]]

\* C19: the response of a handler lists the recipes recommend returned, as
\* many and in the same order, with present, missing and score unchanged
C19_AnnotationKeepsRanking ==
    \A c \in Clients : Served(c) => Listed(c) = Ranking(calls[c].res)

\* C20: a failure of the provider ends only the request it happened in,
\* with an error; the process stays up with its corpus and matrix, and the
\* requests served after it are answered, with the list recommend computes
\* from that corpus
C20_FailureConfined ==
    /\ Up
    /\ \A c \in Clients :
           calls[c].pc = "failed" =>
               /\ calls[c].res = << >>
               /\ IF calls[c].endpoint = "recommend" THEN calls[c].response.raised
                  ELSE /\ ~calls[c].response.body.success
                       /\ calls[c].response.body.recipes = << >>
    /\ pc = "idle_after_failure" =>
           /\ df = Started(dataset).df
           /\ recipe_emb = Started(dataset).emb
           /\ \A c \in Clients :
                  Served(c) =>
                      /\ ~calls[c].response.raised
                      /\ calls[c].res = Ranked(df, clean_list(calls[c].req.ingredients),
                                               calls[c].sims, calls[c].req.top_n,
                                               calls[c].req.max_missing)

\* after a failure both clients are served with records: the one whose
\* request failed has posted again since
C20_Witness ==
    /\ pc = "idle_after_failure"
    /\ \A c \in Clients : Served(c) /\ calls[c].res # << >>


\* key(a) > key(b) for the sort key (match_count, score), written out
GreaterKey(a, b) ==
    \/ a.match_count > b.match_count
    \/ /\ a.match_count = b.match_count
       /\ a.score.num * b.score.den > b.score.num * a.score.den

TrialUser == clean_list(trial.ings)

TrialOther == clean_list(trial.other)

\* the dict d has the key k
HasKey(d, k) == \E n \in DOMAIN d : d[n][1] = k

(***************************************************************************)
(* C22.  Direct overlap takes precedence over substitution: a recipe term  *)
(* r that directly overlaps any user term is in present as r itself, with  *)
(* no annotated entry, and substitutions has no entry for r, even when a   *)
(* declared substitute of r stands earlier in the user's list than the     *)
(* overlapping term.                                                       *)
(***************************************************************************)
C22_DirectBeforeSubstitution ==
    pc \in {"again", "matched"} =>
        \A i \in DOMAIN trial.clean :
            LET r == trial.clean[i]
            IN  (\E n \in DOMAIN TrialUser : Overlaps(r, TrialUser[n])) =>
                    /\ InList(r, trial.first.present)
                    /\ \A n \in DOMAIN TrialUser :
                          ~InList(Annotate(r, TrialUser[n]), trial.first.present)
                    /\ ~HasKey(trial.first.subs_used, r)

\* a declared substitute of r that does not overlap r comes first in the
\* user's list, a term that overlaps r later, and r is present as itself
C22_Witness ==
    /\ pc \in {"again", "matched"}
    /\ \E i \in DOMAIN trial.clean :
          LET r == trial.clean[i]
          IN  /\ \E m, n \in DOMAIN TrialUser :
                    /\ m < n
                    /\ InList(TrialUser[m], get_sub(r))
                    /\ ~Overlaps(r, TrialUser[m])
                    /\ TrialUser[n] # << >>
                    /\ Overlaps(r, TrialUser[n])
                    /\ \A k \in 1..(n - 1) : ~Overlaps(r, TrialUser[k])
              /\ InList(r, trial.first.present)
              /\ trial.first.subs_used = << >>

(***************************************************************************)
(* C23.  search_by_ingredients called with an empty ingredient list does   *)
(* not run the ranker: the provider is not asked, no record is built, and  *)
(* the response is success False with the error "No ingredients provided"  *)
(* and no recipes, whatever the similarities would have been.              *)
(***************************************************************************)
C23_EmptySearchRefused ==
    \A c \in Clients :
        (calls[c].endpoint = "search" /\ calls[c].req.ingredients = << >>) =>
            /\ calls[c].pc = "refused"
            /\ calls[c].sims = << >>
            /\ calls[c].res = << >>
            /\ calls[c].response =
                  [raised |-> FALSE,
                   body |-> [success |-> FALSE,
                             error |-> "No ingredients provided",
                             recipes |-> << >>]]

\* one client's empty search is refused while the other's empty list, sent
\* to recommend_api, is served a record
C23_Witness ==
    \E a \in Clients, b \in Clients :
        /\ calls[a].endpoint = "search"
        /\ calls[a].req.ingredients = << >>
        /\ calls[a].pc = "refused"
        /\ calls[b].endpoint = "recommend"
        /\ calls[b].req.ingredients = << >>
        /\ Served(b)
        /\ calls[b].res # << >>

\* the request to Gemini came back 503 or timed out
Retriable(o) ==
    \/ o.exc = "none" /\ o.status_code = 503
    \/ o.exc = "Timeout"

\* the request to Gemini came back 200
Answered200(o) == o.exc = "none" /\ o.status_code = 200

\* the state of the retry loop of generate_recipes_with_gemini: at most 5
\* requests sent, one per pass; every request but the last came back 503 or
\* timed out; a request that failed otherwise is the last one and the call
\* has ended with an empty list, and so has the call whose fifth request
\* failed; the handler's answer, when there is one, is a response
RetryBounded ==
    LET sent == search.sent
    IN  pc \in {"sending", "parsing", "fallback", "getting", "answered"} =>
            /\ Len(sent) <= max_retries
            /\ pc = "sending" => (Len(sent) = search.attempt /\ Len(sent) < max_retries)
            /\ \A i \in 1..(Len(sent) - 1) : Retriable(sent[i])
            /\ \A i \in DOMAIN sent :
                  (~Retriable(sent[i]) /\ ~Answered200(sent[i])) =>
                      /\ i = Len(sent)
                      /\ pc \in {"fallback", "getting", "answered"}
                      /\ search.ai_recipes = << >>
            /\ (Len(sent) = max_retries /\ ~Answered200(sent[max_retries])) =>
                  /\ pc \in {"fallback", "getting", "answered"}
                  /\ search.ai_recipes = << >>
            /\ pc = "answered" => search.response.source \in {"gemini", "google", "none"}

(***************************************************************************)
(* C24.  The Gemini retry loop is bounded and always terminates: one call  *)
(* of generate_recipes_with_gemini sends the request at most 5 times, a    *)
(* request is sent again only after a 503 or a timeout, any other status   *)
(* but 200 ends the call at once with an empty list, and so does the fifth *)
(* failure, without raising; and a call that is in the loop leaves it.     *)
(***************************************************************************)
C24_RetryTerminates ==
    /\ []RetryBounded
    /\ (pc = "sending") ~> (pc # "sending")

\* five requests sent, a 503 and a timeout among the first four, the fifth
\* failed as well, and the handler has gone on to its answer without Gemini
C24_Witness ==
    /\ pc = "answered"
    /\ Len(search.sent) = max_retries
    /\ \E i, j \in 1..(max_retries - 1) :
          search.sent[i].exc = "Timeout" /\ search.sent[j].status_code = 503
    /\ Retriable(search.sent[max_retries])
    /\ search.ai_recipes = << >>
    /\ search.response.source # "gemini"

(***************************************************************************)
(* C25.  The recipe search asks its providers in a fixed order and always  *)
(* answers: Gemini first when its key is configured, and the answer has    *)
(* source "gemini" only if Gemini gave at least one recipe; otherwise      *)
(* Google Custom Search when both its key and its CX are configured        *)
(* (source "google"); otherwise success False, source "none" and no        *)
(* results.                                                                *)
(***************************************************************************)
C25_ProviderOrder ==
    /\ search.asked \in {<< >>, <<"gemini">>, <<"google">>, <<"gemini", "google">>}
    /\ (pc # "ready" /\ search.GEMINI_API_KEY) =>
          (search.asked # << >> /\ search.asked[1] = "gemini")
    /\ (search.sent # << >>) => search.GEMINI_API_KEY
    /\ InList("google", search.asked) =>
          /\ search.GOOGLE_API_KEY /\ search.GOOGLE_CX
          /\ search.ai_recipes = << >>
          /\ search.GEMINI_API_KEY =>
                (search.sent # << >> /\ pc \notin {"sending", "parsing"})
    /\ pc = "answered" =>
          LET r == search.response
          IN  /\ r.source = "gemini" <=>
                    (search.GEMINI_API_KEY /\ search.ai_recipes # << >>)
              /\ r.source = "gemini" =>
                    /\ r.success
                    /\ r.results = search.ai_recipes
                    /\ search.asked = <<"gemini">>
              /\ r.source = "google" <=>
                    /\ search.ai_recipes = << >>
                    /\ search.GOOGLE_API_KEY /\ search.GOOGLE_CX
              /\ r.source = "google" =>
                    /\ r.success
                    /\ r.results = search.web_results
              /\ r.source = "none" <=>
                    /\ search.ai_recipes = << >>
                    /\ ~(search.GOOGLE_API_KEY /\ search.GOOGLE_CX)
              /\ r.source = "none" => (~r.success /\ r.results = << >>)

\* Gemini was asked and gave no recipe, Google was asked next and its
\* results are the answer
C25_Witness ==
    /\ pc = "answered"
    /\ search.asked = <<"gemini", "google">>
    /\ Answered200(search.sent[Len(search.sent)])
    /\ search.response.source = "google"
    /\ search.response.results # << >>

\* the records a and b have equal sort keys (match_count, score)
SameKey(a, b) ==
    /\ a.match_count = b.match_count
    /\ a.score.num * b.score.den = b.score.num * a.score.den

(***************************************************************************)
(* C26.  Ties are broken by corpus order: returned records of equal        *)
(* (match_count, boosted score) stand in the order of their rows in the    *)
(* corpus, and when the cut to top_n goes through a tie the records of the *)
(* earlier rows are the ones kept.                                         *)
(***************************************************************************)
C26_TiesInCorpusOrder ==
    Done =>
        /\ \A a, b \in DOMAIN res :
              (a < b /\ SameKey(res[a], res[b])) => res[a].idx < res[b].idx
        /\ \A o \in DOMAIN out, n \in DOMAIN res :
              (~Returned(out[o].idx) /\ SameKey(out[o], res[n])) =>
                  res[n].idx < out[o].idx

\* two rows tie; with top_n = 1 the first row of the corpus is returned and
\* the second is cut
C26_Witness ==
    /\ Done
    /\ req.top_n = 1
    /\ Len(out) = 2
    /\ SameKey(out[1], out[2])
    /\ Len(res) = 1
    /\ res[1].idx = 1

\* the raw list without the ingredients that clean to the empty string
RECURSIVE WithoutEmpty(_)
WithoutEmpty(ings) ==
    IF ings = << >> THEN << >>
    ELSE IF Clean(Head(ings)) = << >> THEN WithoutEmpty(Tail(ings))
    ELSE <<Head(ings)>> \o WithoutEmpty(Tail(ings))

(***************************************************************************)
(* C27.  A user ingredient that cleans to the empty string, such as        *)
(* "2 cups", matches nothing: present and missing are those of the same    *)
(* list without that ingredient.                                           *)
(***************************************************************************)
C27_EmptyTermMatchesNothing ==
    (pc = "matched" /\ trial.other = WithoutEmpty(trial.ings)) =>
        /\ trial.first.present = trial.second.present
        /\ trial.first.missing = trial.second.missing

\* the entry p of present carries an annotation "(sub->u)"
Annotated(p) == StripSub(p) # p

(***************************************************************************)
(* C28.  substitutions is consistent with present in every returned        *)
(* record: each key r is a cleaned term of the recipe, its value u is one  *)
(* of the cleaned user terms and a declared substitute of r (one of        *)
(* get_sub(r)), and present holds the entry "r(sub->u)"; and every         *)
(* annotated entry of present has its key in substitutions.  No key is     *)
(* held twice.                                                             *)
(***************************************************************************)
C28_SubstitutionsMatchPresent ==
    Done =>
        \A n \in DOMAIN res :
            LET rec == res[n]
                subs == rec.substitutions
            IN  /\ \A k \in DOMAIN subs :
                      LET r == subs[k][1]
                          u == subs[k][2]
                      IN  /\ InList(r, df[rec.idx].clean)
                          /\ InList(u, UserClean)
                          /\ InList(u, get_sub(r))
                          /\ InList(Annotate(r, u), rec.present)
                /\ \A j, k \in DOMAIN subs : subs[j][1] = subs[k][1] => j = k
                /\ \A p \in DOMAIN rec.present :
                      Annotated(rec.present[p]) =>
                          HasKey(subs, StripSub(rec.present[p]))

\* a record is returned whose one ingredient is present by substitution
C28_Witness ==
    /\ Done
    /\ \E n \in DOMAIN res :
          /\ Len(res[n].substitutions) = 1
          /\ Len(res[n].present) = 1
          /\ Annotated(res[n].present[1])
          /\ res[n].missing = << >>

\* the list b is the list a with further elements appended
Extends(b, a) == Len(a) <= Len(b) /\ SubSeq(b, 1, Len(a)) = a

(***************************************************************************)
(* C29.  Matching is monotone in the user's ingredients: appending further *)
(* ingredients to the user's list never turns a present recipe ingredient  *)
(* into a missing one, so match_count (the length of present) never        *)
(* decreases and the length of missing never increases.                    *)
(***************************************************************************)
C29_MatchMonotone ==
    (pc = "matched" /\ Extends(trial.other, trial.ings)) =>
        /\ Len(trial.second.present) >= Len(trial.first.present)
        /\ Len(trial.second.missing) <= Len(trial.first.missing)
        /\ \A i \in DOMAIN trial.second.missing :
              InList(trial.second.missing[i], trial.first.missing)
        /\ \A i \in DOMAIN trial.first.present :
              InList(StripSub(trial.first.present[i]),
                     StripAll(trial.second.present))

\* an ingredient is appended to a list that matched one term by
\* substitution and missed another: both are present with the longer list
C29_Witness ==
    /\ pc = "matched"
    /\ Extends(trial.other, trial.ings)
    /\ Len(trial.other) > Len(trial.ings)
    /\ trial.first.subs_used # << >>
    /\ trial.first.missing # << >>
    /\ trial.second.missing = << >>
    /\ Len(trial.second.present) > Len(trial.first.present)

\* the list b holds the elements of the list a in some order
Reordered(b, a) ==
    /\ Len(a) = Len(b)
    /\ \E f \in [DOMAIN a -> DOMAIN a] :
          /\ \A i, j \in DOMAIN a : f[i] = f[j] => i = j
          /\ \A i \in DOMAIN a : b[i] = a[f[i]]

(***************************************************************************)
(* C30.  Matching is independent of the order of the user's ingredients:   *)
(* for one recipe, every ordering of the same cleaned user terms gives the *)
(* same present list, annotations included, the same missing list and the  *)
(* same substitutions.                                                     *)
(***************************************************************************)
C30_OrderIndependent ==
    (pc = "matched" /\ Reordered(TrialOther, TrialUser)) =>
        /\ trial.first.present = trial.second.present
        /\ trial.first.missing = trial.second.missing
        /\ trial.first.subs_used = trial.second.subs_used

(***************************************************************************)
(* C30, amended.  Which recipe terms are present and which are missing     *)
(* does not depend on the order of the user's ingredients: every ordering  *)
(* of the same cleaned user terms gives the same missing list and the same *)
(* present list once the annotations are stripped (so the same             *)
(* match_count); the annotation and substitutions name the first matching  *)
(* user term and may differ with the order.                                *)
(***************************************************************************)
C30_OrderIndependentPresence ==
    (pc = "matched" /\ Reordered(TrialOther, TrialUser)) =>
        /\ StripAll(trial.first.present) = StripAll(trial.second.present)
        /\ trial.first.missing = trial.second.missing

\* the same two user terms in the two orders: the recipe term is present
\* both times, by a different substitute each time
C30_Witness ==
    /\ pc = "matched"
    /\ Reordered(TrialOther, TrialUser)
    /\ TrialOther # TrialUser
    /\ Len(trial.first.subs_used) = 1
    /\ Len(trial.second.subs_used) = 1
    /\ trial.first.subs_used[1][1] = trial.second.subs_used[1][1]
    /\ trial.first.subs_used[1][2] # trial.second.subs_used[1][2]
    /\ trial.first.present # trial.second.present
    /\ StripAll(trial.first.present) = StripAll(trial.second.present)
=============================================================================
